---------------------------- MODULE Spec2Model ----------------------------
(***************************************************************************)
(* A model of the MCP resume generator: the e-mail interpreter             *)
(* (mcp_modules/email_interpreter.py), the profile store and request       *)
(* router (mcp_modules/profile_retriever.py), the candidate matcher        *)
(* (mcp_modules/candidate_matcher.py), the rendering stages and the        *)
(* orchestrator (mcp_modules/main.py).                                     *)
(*                                                                         *)
(* Texts are sequences of tokens separated by single blanks.  The          *)
(* vocabulary is chosen so that a keyword of a regular expression occurs   *)
(* in a token only as the whole token; a search of the source's regular    *)
(* expressions over the characters then coincides with the token-level     *)
(* search written here.  Scores are kept in hundredths (100 = 1.0).        *)
(***************************************************************************)
EXTENDS Integers, Sequences, FiniteSets, TLC

VARIABLES
    store,   \* profiles/<user_id>.json : user id -> file state
    files,   \* artifact paths that exist on disk under outputs/
    clock,   \* datetime.now(), as a counter
    ctx,     \* the context dict of the call in progress / last returned
    pc,      \* position of the orchestrator's loop over self.modules
    log,     \* what the stages of the current run did, in order
    runs,    \* number of calls started so far
    xout,    \* locals of the last interpret_email call
    last,    \* the last call of a store operation: arguments and result
    tasks    \* the store operations in progress, one per concurrent run

vars == <<store, files, clock, ctx, pc, log, runs, xout, last, tasks>>

----------------------------------------------------------------------------
(* Bounds of the model                                                     *)

\* longest enumerated e-mail, in tokens (scenario e-mails are added whole)
MaxWords == 3
\* number of calls (pipeline runs and direct router calls) in a behaviour
MaxRuns == 1
\* the store operations stop when datetime.now() has reached this
MaxClock == 4

----------------------------------------------------------------------------
(* Tokens, str.lower(), and the parts of a token the character classes see *)

\* tokens the short e-mails are enumerated over
ShortVocab ==
    {"send", "John_Doe's", "John_Doe", "resume", "of", "for", "hire",
     "recommend", "candidate", "position"}

\* the spec's scenario e-mails and one general posting, token by token
MailRecommend ==
    <<"Can", "you", "recommend", "a", "candidate", "from", "our", "talent",
      "pool", "for", "this", "role">>
MailSendResume ==
    <<"Please", "send", "John_Doe's", "resume", "for", "this", "position">>
MailFindBest ==
    <<"find", "the", "best", "candidate", "for", "John's", "role">>
MailHireAlice == <<"Please", "hire", "alice">>
MailGeneral == <<"we", "have", "an", "opening">>

ScenarioMails ==
    {MailRecommend, MailSendResume, MailFindBest, MailHireAlice, MailGeneral}

\* str.lower() on one token
LowerTok(t) ==
    CASE t = "John_Doe" -> "john_doe"
      [] t = "John_Doe's" -> "john_doe's"
      [] t = "John's" -> "john's"
      [] t = "Please" -> "please"
      [] t = "Can" -> "can"
      [] OTHER -> t

\* email_text.lower()
LowerText(toks) == [i \in 1..Len(toks) |-> LowerTok(toks[i])]

\* tokens of the form <word>'s, after lowering
IsPossessive(t) == t \in {"john_doe's", "john's"}

\* the leading run of [a-zA-Z0-9_] characters of a token
HeadRun(t) ==
    CASE t = "john_doe's" -> "john_doe"
      [] t = "john's" -> "john"
      [] OTHER -> t

\* the trailing run of [a-zA-Z0-9_] characters of a token
TailRun(t) == IF IsPossessive(t) THEN "s" ELSE t

\* len(user_id) > 1 for the strings a capture can yield
LongerThanOne(s) == s \notin {"a", "s"}

----------------------------------------------------------------------------
(* Regular expressions as sequences of elements separated by \s+           *)

\* a literal word, or an alternation (?:a|b|c) of literal words
Lit(w) == [k |-> "lit", alts |-> {<<w>>}]
Alt(S) == [k |-> "lit", alts |-> {<<w>> : w \in S}]
\* an optional group (?:w\s+)?, (?:a\s+|b\s+)? or (?:w1\s+w2\s+)?
Opt(w) == [k |-> "opt", alts |-> {<<w>>}]
OptAlt(S) == [k |-> "opt", alts |-> {<<w>> : w \in S}]
OptSeq(ws) == [k |-> "opt", alts |-> {ws}]
\* ([a-zA-Z0-9_]+)
Cap == [k |-> "cap", alts |-> {}]
\* ([a-zA-Z0-9_]+)(?:\'s)?
CapPoss == [k |-> "capposs", alts |-> {}]

NoMatch == [ok |-> FALSE, cap |-> ""]

JobWords == {"job", "position", "role"}

\* self.find_candidate_patterns
find_candidate_patterns ==
    << <<Lit("find"), Opt("the"), Lit("best"), Lit("candidate")>>,
       <<Lit("who"), Opt("is"), Opt("the"), Lit("best"), Opt("suited"),
         Opt("for"), Opt("this"), Alt(JobWords)>>,
       <<Lit("recommend"), Opt("a"), Lit("candidate")>>,
       <<Lit("suggest"), Opt("a"), Opt("suitable"), Lit("candidate")>>,
       <<Lit("which"), Lit("candidate"), Opt("is"), Opt("best"),
         Opt("suited"), Opt("for"), Opt("this"), Alt(JobWords)>>,
       <<Lit("select"), Opt("the"), Opt("best"), Lit("candidate")>>,
       <<Lit("choose"), Opt("the"), Opt("best"), Lit("candidate")>>,
       <<Lit("match"), Opt("a"), Lit("candidate"), Opt("for"), Opt("this"),
         Alt(JobWords)>>,
       <<Lit("pick"), Opt("the"), Opt("best"), Lit("candidate")>>,
       <<Lit("identify"), Opt("the"), Opt("best"), Lit("candidate")>>,
       <<Lit("shortlist"), Opt("the"), Opt("best"), Lit("candidate")>>,
       <<Lit("from"), Opt("our"), Opt("available"), Opt("candidate"),
         Alt({"profile", "profiles"})>>,
       <<Lit("from"), Opt("our"), Opt("talent"), Alt({"pool", "database"})>>,
       <<Lit("review"), Opt("our"), Opt("candidate"),
         Alt({"profile", "profiles"})>>,
       <<Lit("screen"), Opt("our"), Opt("candidate"),
         Alt({"profile", "profiles"})>> >>

\* user_patterns (the same list in detect_request_type and extract_user_id)
user_patterns ==
    << <<Lit("resume"), OptAlt({"of", "for"}), Cap>>,
       <<Lit("profile"), OptAlt({"of", "for"}), Cap>>,
       <<Lit("send"), CapPoss, Lit("resume")>>,
       <<Cap, Opt("for"), Opt("this"), Alt(JobWords)>>,
       <<Lit("hire"), Cap>>,
       <<Lit("consider"), Cap>>,
       <<Cap, OptSeq(<<"would", "be">>),
         Alt({"suitable", "good", "perfect"}), Opt("for"), Opt("this"),
         Alt(JobWords)>> >>


\* whether the words ws stand at tokens j, j+1, ... of toks
WordsAt(ws, toks, j) ==
    /\ j + Len(ws) - 1 <= Len(toks)
    /\ \A i \in 1..Len(ws) : toks[j + i - 1] = ws[i]

\* the match of elements k.. of pattern p against toks from token j on,
\* trying an optional group before skipping it, as re does
RECURSIVE MatchFrom(_, _, _, _)
MatchFrom(p, k, toks, j) ==
    IF k > Len(p) THEN [ok |-> TRUE, cap |-> ""]
    ELSE
      LET e == p[k]
          hits == {ws \in e.alts : WordsAt(ws, toks, j)}
      IN  CASE e.k = "lit" ->
                 IF hits = {} THEN NoMatch
                 ELSE MatchFrom(p, k + 1, toks, j + 1)
            [] e.k = "opt" ->
                 LET taken == IF hits = {} THEN NoMatch
                              ELSE MatchFrom(p, k + 1, toks,
                                             j + Len(CHOOSE ws \in hits : TRUE))
                 IN  IF taken.ok THEN taken
                     ELSE MatchFrom(p, k + 1, toks, j)
            [] OTHER ->
                 IF j > Len(toks) THEN NoMatch
                 ELSE
                   LET rest == MatchFrom(p, k + 1, toks, j + 1)
                       text == IF e.k = "cap" /\ k = 1 THEN TailRun(toks[j])
                               ELSE HeadRun(toks[j])
                   IN  IF rest.ok THEN [ok |-> TRUE, cap |-> text]
                       ELSE NoMatch

\* the match of p at the least of the starting tokens
LeftmostMatch(p, toks, starts) ==
    IF starts = {} THEN NoMatch
    ELSE MatchFrom(p, 1, toks, CHOOSE i \in starts : \A j \in starts : i <= j)

\* re.search(pattern, email_lower): the leftmost match
Search(p, toks) ==
    LeftmostMatch(p, toks, {i \in 1..Len(toks) : MatchFrom(p, 1, toks, i).ok})

MatchesAny(ps, toks) == \E n \in 1..Len(ps) : Search(ps[n], toks).ok

\* detect_request_type with the two loops in the other order
FaultUserPatternsFirst(email_text) ==
    LET email_lower == LowerText(email_text)
    IN  IF MatchesAny(user_patterns, email_lower)
        THEN "specific_user"
        ELSE IF MatchesAny(find_candidate_patterns, email_lower)
        THEN "find_best_candidate"
        ELSE "general_job_posting"

\* detect_request_type taking an unmatched email for a best-candidate search
FaultUnmatchedIsFindBest(email_text) ==
    LET email_lower == LowerText(email_text)
    IN  IF MatchesAny(find_candidate_patterns, email_lower)
        THEN "find_best_candidate"
        ELSE IF MatchesAny(user_patterns, email_lower)
        THEN "specific_user"
        ELSE "find_best_candidate"

\* EmailInterpreter.detect_request_type
detect_request_type(email_text) ==
    LET email_lower == LowerText(email_text)
    IN  IF MatchesAny(find_candidate_patterns, email_lower)
        THEN "find_best_candidate"
        ELSE IF MatchesAny(user_patterns, email_lower)
        THEN "specific_user"
        ELSE "general_job_posting"

\* the capture of the first of the patterns numbered in good
FirstCapture(email_lower, good) ==
    IF good = {} THEN "default_user"
    ELSE Search(user_patterns[CHOOSE n \in good : \A m \in good : n <= m],
                email_lower).cap

\* the patterns whose leftmost match captures more than one character
GoodCaptures(email_lower) ==
    {n \in 1..Len(user_patterns) :
        \E m \in {Search(user_patterns[n], email_lower)} :
            m.ok /\ LongerThanOne(m.cap)}

\* EmailInterpreter.extract_user_id: the first pattern, in list order,
\* whose leftmost match captures more than one character
extract_user_id(email_text) ==
    FirstCapture(LowerText(email_text), GoodCaptures(LowerText(email_text)))

----------------------------------------------------------------------------
(* The e-mail interpreter: EmailInterpreter.interpret_email                *)

\* JSON null / Python None, where a string is expected; a key that is absent
Null == "<null>"
Missing == "<missing>"

\* self.sector_requirements[...]["trending_skills"] for the sectors the
\* sector call answers in this model
TrendingSkills(sector) ==
    CASE sector = "technology" ->
           <<"AI/ML", "Cloud Computing", "Kubernetes", "React", "Python",
             "DevOps", "Cybersecurity", "Data Science">>
      [] OTHER -> <<"Communication", "Problem-solving", "Teamwork">>

KnownSectors == {"technology"}

\* detect_company_sector: the answer when it names a known sector, else
\* (unknown answer, or the call raised) "other"
detect_company_sector(answer) ==
    IF answer \in KnownSectors THEN answer ELSE "other"

\* get_latest_requirements(sector)["trending_skills"]
get_latest_requirements(sector) == TrendingSkills(sector)

\* seq[:n]
Take(seq, n) == SubSeq(seq, 1, IF Len(seq) < n THEN Len(seq) ELSE n)

\* the replies of the extraction call: it raises, answers text that is
\* not JSON, answers JSON that is not an object, or answers an object
ReplyError == [kind |-> "error", job_title |-> Null, company |-> Null,
               skills |-> <<>>, experience_level |-> Null]
ReplyMalformed == [ReplyError EXCEPT !.kind = "malformed"]
ReplyNonObject == [ReplyError EXCEPT !.kind = "nonobject"]
ReplyFull == [kind |-> "object", job_title |-> "Backend Engineer",
              company |-> "TechCorp", skills |-> <<"Python", "SQL">>,
              experience_level |-> "mid"]
ReplyBare == [kind |-> "object", job_title |-> "Analyst", company |-> Null,
              skills |-> <<>>, experience_level |-> Null]

LlmReplies == {ReplyError, ReplyMalformed, ReplyNonObject, ReplyFull, ReplyBare}

\* answers of the sector call; "unknown" stands for any other text
SectorAnswers == {"technology", "unknown"}

\* the value of output.job_info when the key is absent
NoJob ==
    [job_title |-> Null, company |-> Null, skills |-> <<>>,
     experience_level |-> Null, user_id |-> Null, request_type |-> Null,
     use_candidate_matcher |-> FALSE, detected_sector |-> Null,
     recommended_skills |-> <<>>, error |-> FALSE]

\* the dict returned by the except branch of interpret_email
DefaultJobInfo ==
    [job_title |-> "General Position", company |-> "Unknown Company",
     skills |-> <<"Communication", "Problem-solving", "Teamwork">>,
     experience_level |-> Missing, user_id |-> "default_user",
     request_type |-> "general_job_posting",
     use_candidate_matcher |-> FALSE, detected_sector |-> "other",
     recommended_skills |-> <<"Communication", "Problem-solving", "Teamwork">>,
     error |-> TRUE]

\* the calls interpret_email makes to the language model, in order
LlmCalls(reply) ==
    IF reply.kind = "object" THEN <<"extract", "sector">> ELSE <<"extract">>

\* basic_info after the branches on request_type and the sector lookup
JobRecord(reply, request_type, user_id, sector, latest) ==
    [job_title |-> reply.job_title,
     company |-> reply.company,
     skills |-> IF reply.skills = <<>> THEN Take(latest, 5)
                ELSE reply.skills,
     experience_level |-> reply.experience_level,
     user_id |-> user_id,
     request_type |-> request_type,
     use_candidate_matcher |-> (request_type = "find_best_candidate"),
     detected_sector |-> sector,
     recommended_skills |-> latest,
     error |-> FALSE]

\* the user id interpret_email records for a request type
JobUserId(request_type, email_text) ==
    CASE request_type = "find_best_candidate" -> "FIND_BEST_CANDIDATE"
      [] request_type = "specific_user" -> extract_user_id(email_text)
      [] OTHER -> "default_user"

\* the try branch of interpret_email from the detected request type on
JobOfType(email_text, reply, sector, request_type) ==
    JobRecord(reply, request_type, JobUserId(request_type, email_text),
              sector, get_latest_requirements(sector))

\* the try branch of interpret_email, for a reply that is a JSON object
InterpretedJob(email_text, reply, sector_answer) ==
    JobOfType(email_text, reply, detect_company_sector(sector_answer),
              detect_request_type(email_text))

\* interpret_email whose except branch keeps the detected request type
FaultDefaultKeepsRequestType(email_text, reply, sector_answer) ==
    IF reply.kind # "object"
    THEN [DefaultJobInfo EXCEPT
            !.request_type = detect_request_type(email_text)]
    ELSE InterpretedJob(email_text, reply, sector_answer)

\* EmailInterpreter.interpret_email
interpret_email(email_text, reply, sector_answer) ==
    IF reply.kind # "object" THEN DefaultJobInfo
    ELSE InterpretedJob(email_text, reply, sector_answer)

----------------------------------------------------------------------------
(* The profile store: ProfileRetriever over profiles/<user_id>.json        *)

\* self.FIND_BEST_CANDIDATE_ID and self.DEFAULT_USER_ID
FIND_BEST_CANDIDATE_ID == "FIND_BEST_CANDIDATE"
DEFAULT_USER_ID == "default_user"

\* the user ids of the model
UserIds == {"alice", "bob", DEFAULT_USER_ID, FIND_BEST_CANDIDATE_ID, "this"}

\* user_id.replace("_", " ").title()
TitleName(u) ==
    CASE u = "default_user" -> "Default User"
      [] u = "FIND_BEST_CANDIDATE" -> "Find Best Candidate"
      [] u = "alice" -> "Alice"
      [] u = "bob" -> "Bob"
      [] u = "this" -> "This"
      [] u = "john_doe" -> "John Doe"
      [] OTHER -> u

\* f"{user_id}@example.com"
ExampleEmail(u) ==
    CASE u = "default_user" -> "default_user@example.com"
      [] u = "FIND_BEST_CANDIDATE" -> "FIND_BEST_CANDIDATE@example.com"
      [] u = "alice" -> "alice@example.com"
      [] u = "bob" -> "bob@example.com"
      [] u = "this" -> "this@example.com"
      [] OTHER -> "@example.com"

\* no timestamp (None), and no path (None)
NoTime == 0
NoPath == <<>>

\* the default profile of load_profile and _get_default_profile
DefaultProfile(user_id) ==
    [user_id |-> user_id, name |-> TitleName(user_id),
     email |-> ExampleEmail(user_id), phone |-> "Not provided",
     education |-> <<>>, experience |-> <<>>, skills |-> <<>>,
     resume_path |-> NoPath, cover_letter_path |-> NoPath,
     created_at |-> NoTime, updated_at |-> NoTime]

\* the value of a profile where there is none
NoProfile == DefaultProfile(Null)

\* the state of one file profiles/<user_id>.json
Absent == [state |-> "absent", rec |-> NoProfile]
Corrupt == [state |-> "corrupt", rec |-> NoProfile]
Stored(rec) == [state |-> "ok", rec |-> rec]

\* save_profile leaving the user_id of the dict as it is
FaultSaveKeepsUserId(st, user_id, profile_data) ==
    [store |-> [st.store EXCEPT
                  ![user_id] = Stored([profile_data EXCEPT
                                         !.updated_at = st.clock,
                                         !.created_at = IF @ = NoTime
                                                        THEN st.clock
                                                        ELSE @])],
     clock |-> st.clock + 1,
     ret |-> [profile_data EXCEPT
                !.updated_at = st.clock,
                !.created_at = IF @ = NoTime THEN st.clock ELSE @]]

\* save_profile stamping created_at at every save
FaultSaveRestamps(st, user_id, profile_data) ==
    [store |-> [st.store EXCEPT
                  ![user_id] = Stored([profile_data EXCEPT
                                         !.user_id = user_id,
                                         !.updated_at = st.clock,
                                         !.created_at = st.clock])],
     clock |-> st.clock + 1,
     ret |-> [profile_data EXCEPT
                !.user_id = user_id,
                !.updated_at = st.clock,
                !.created_at = st.clock]]

\* ProfileRetriever.save_profile; the clock advances past the time it read
save_profile(st, user_id, profile_data) ==
    LET now == st.clock
        data == [profile_data EXCEPT
                   !.user_id = user_id,
                   !.updated_at = now,
                   !.created_at = IF @ = NoTime THEN now ELSE @]
    IN  [store |-> [st.store EXCEPT ![user_id] = Stored(data)],
         clock |-> now + 1,
         ret |-> data]

\* load_profile removing the file it cannot read
FaultLoadDropsUnreadable(st, user_id) ==
    IF st.store[user_id].state = "corrupt"
    THEN [store |-> [st.store EXCEPT ![user_id] = Absent],
          clock |-> st.clock, ret |-> DefaultProfile(user_id)]
    ELSE IF st.store[user_id].state = "absent"
    THEN [store |-> [st.store EXCEPT
                       ![user_id] = Stored([DefaultProfile(user_id) EXCEPT
                                              !.created_at = st.clock,
                                              !.updated_at = st.clock])],
          clock |-> st.clock + 1,
          ret |-> [DefaultProfile(user_id) EXCEPT
                     !.created_at = st.clock, !.updated_at = st.clock]]
    ELSE [store |-> st.store, clock |-> st.clock,
          ret |-> [st.store[user_id].rec EXCEPT !.user_id = user_id]]

\* load_profile returning the default profile without saving it
FaultLoadNoPersist(st, user_id) ==
    [store |-> st.store, clock |-> st.clock,
     ret |-> IF st.store[user_id].state = "ok"
             THEN [st.store[user_id].rec EXCEPT !.user_id = user_id]
             ELSE DefaultProfile(user_id)]

\* ProfileRetriever.load_profile: st is [store, clock]; the result carries
\* the store and clock after the call and the profile returned
load_profile(st, user_id) ==
    LET f == st.store[user_id]
    IN  CASE f.state = "absent" ->
               save_profile(st, user_id, DefaultProfile(user_id))
          [] f.state = "corrupt" ->
               [store |-> st.store, clock |-> st.clock,
                ret |-> DefaultProfile(user_id)]
          [] OTHER ->
               [store |-> st.store, clock |-> st.clock,
                ret |-> IF f.rec.user_id = Null
                        THEN [f.rec EXCEPT !.user_id = user_id]
                        ELSE f.rec]

\* profile[field] = value, then save_profile
EditAndSave(loaded, user_id, field, value) ==
    save_profile([store |-> loaded.store, clock |-> loaded.clock], user_id,
                 [loaded.ret EXCEPT ![field] = value])

\* ProfileRetriever.update_profile_field
update_profile_field(st, user_id, field, value) ==
    EditAndSave(load_profile(st, user_id), user_id, field, value)

\* whether x is an element of the list q
InList(x, q) == \E i \in 1..Len(q) : q[i] = x

\* add_skill after load_profile: a skill already listed is not added, and
\* the profile is not saved
AppendSkill(loaded, user_id, skill) ==
    IF InList(skill, loaded.ret.skills) THEN loaded
    ELSE EditAndSave(loaded, user_id, "skills",
                     Append(loaded.ret.skills, skill))

\* ProfileRetriever.add_skill
add_skill(st, user_id, skill) ==
    AppendSkill(load_profile(st, user_id), user_id, skill)

\* profile[field].append(item), then save_profile
AppendAndSave(loaded, user_id, field, item) ==
    EditAndSave(loaded, user_id, field, Append(loaded.ret[field], item))

\* ProfileRetriever.add_experience
add_experience(st, user_id, experience) ==
    AppendAndSave(load_profile(st, user_id), user_id, "experience",
                  experience)

\* ProfileRetriever.add_education
add_education(st, user_id, education) ==
    AppendAndSave(load_profile(st, user_id), user_id, "education", education)

\* the files of the profiles directory
StoredIds(dir) == {u \in UserIds : dir[u].state # "absent"}

\* the orders os.listdir may return the directory in
ListOrders ==
    {<<"alice", "bob", "default_user", "FIND_BEST_CANDIDATE", "this">>,
     <<"this", "FIND_BEST_CANDIDATE", "default_user", "bob", "alice">>}

\* seq restricted to the elements in S
RECURSIVE Filter(_, _)
Filter(seq, S) ==
    IF seq = <<>> THEN <<>>
    ELSE IF Head(seq) \in S THEN <<Head(seq)>> \o Filter(Tail(seq), S)
    ELSE Filter(Tail(seq), S)

\* os.listdir(self.profiles_dir), as user ids
ListDir(dir, order) == Filter(order, StoredIds(dir))

\* ProfileRetriever.get_all_profiles: every file but the sentinel's, loaded
get_all_profiles(st, order) ==
    LET ids == Filter(ListDir(st.store, order),
                      UserIds \ {FIND_BEST_CANDIDATE_ID})
    IN  [i \in 1..Len(ids) |-> load_profile(st, ids[i]).ret]

----------------------------------------------------------------------------
(* The scorer: CandidateMatcher.calculate_*_match                          *)

\* str.strip().lower() on the skill, title and education strings in use
LowerStr(x) ==
    CASE x = "Python" -> "python"
      [] x = "SQL" -> "sql"
      [] x = "AI/ML" -> "ai/ml"
      [] x = "Cloud Computing" -> "cloud computing"
      [] x = "Kubernetes" -> "kubernetes"
      [] x = "React" -> "react"
      [] x = "DevOps" -> "devops"
      [] x = "Cybersecurity" -> "cybersecurity"
      [] x = "Data Science" -> "data science"
      [] x = "Communication" -> "communication"
      [] x = "Problem-solving" -> "problem-solving"
      [] x = "Teamwork" -> "teamwork"
      [] x = "Backend Engineer" -> "backend engineer"
      [] x = "Analyst" -> "analyst"
      [] x = "General Position" -> "general position"
      [] x = "TechCorp" -> "techcorp"
      [] x = "Unknown Company" -> "unknown company"
      [] x = "BSc Computer Science" -> "bsc computer science"
      [] x = "Diploma in Python" -> "diploma in python"
      [] x = " SQL" -> "sql"
      [] x = "MySQL" -> "mysql"
      [] x = "Senior" -> "senior"
      [] x = "Entry" -> "entry"
      [] x = " " -> ""
      [] x = "None" -> "none"
      [] x = "{\"degree\": \"Master\"}" -> "{\"degree\": \"master\"}"
      [] OTHER -> x

\* the proper substrings among the lowered strings in use
SubstringPairs ==
    {<<"sql", "mysql">>,
     <<"computer science", "bsc computer science">>,
     <<"python", "diploma in python">>,
     <<"master", "{\"degree\": \"master\"}">>}

\* a in b, for lowered strings
InStr(a, b) == a = b \/ <<a, b>> \in SubstringPairs

\* CandidateMatcher.safe_string_processing on a list of strings
safe_string_processing(items) ==
    LET low == [i \in 1..Len(items) |-> LowerStr(items[i])]
    IN  Filter(low, {low[i] : i \in 1..Len(low)} \ {""})

\* round(x / n, 2) in hundredths, for 0 <= x <= n
RoundRatio(x, n) == (200 * x + n) \div (2 * n)

\* the embedding backend: not available (not loaded, or encode raises), or
\* the rounded mean of best cosine similarities it yields per candidate
NoEmbedding == [ok |-> FALSE, score |-> [u \in UserIds |-> 0]]
EmbeddingB == [ok |-> TRUE,
               score |-> [u \in UserIds |-> IF u = "bob" THEN 90 ELSE 40]]
Embeddings == {NoEmbedding, EmbeddingB}

\* the keyword match that counts a job skill only when it is a substring
\* of a candidate skill
FaultSkillsOneDirection(job_skills, candidate_skills, emb, u) ==
    IF safe_string_processing(job_skills) = <<>>
         \/ safe_string_processing(candidate_skills) = <<>> THEN 0
    ELSE IF emb.ok THEN emb.score[u]
    ELSE RoundRatio(
           Cardinality(
             {i \in 1..Len(safe_string_processing(job_skills)) :
                \E j \in 1..Len(safe_string_processing(candidate_skills)) :
                   InStr(safe_string_processing(job_skills)[i],
                         safe_string_processing(candidate_skills)[j])}),
           Len(safe_string_processing(job_skills)))

\* the match without the return of 0.0 for an empty list
FaultSkillsNoEmptyCheck(job_skills, candidate_skills, emb, u) ==
    IF emb.ok THEN emb.score[u]
    ELSE IF safe_string_processing(job_skills) = <<>> THEN 100
    ELSE 0

\* CandidateMatcher.calculate_skills_match, for candidate u
calculate_skills_match(job_skills, candidate_skills, emb, u) ==
    LET job_skills_clean == safe_string_processing(job_skills)
        candidate_skills_clean == safe_string_processing(candidate_skills)
        matches == Cardinality(
            {i \in 1..Len(job_skills_clean) :
                \E j \in 1..Len(candidate_skills_clean) :
                    \/ InStr(job_skills_clean[i], candidate_skills_clean[j])
                    \/ InStr(candidate_skills_clean[j], job_skills_clean[i])})
    IN  IF job_skills_clean = <<>> \/ candidate_skills_clean = <<>> THEN 0
        ELSE IF emb.ok THEN emb.score[u]
        ELSE RoundRatio(matches, Len(job_skills_clean))

\* the numbers N of the matches of (\d+)\s*(?:year|yr) in an entry
YearMatches(entry) ==
    CASE entry = "3 years as backend engineer" -> <<3>>
      [] entry = "6 years at acme" -> <<6>>
      [] entry = "0 years" -> <<0>>
      [] entry = "{\"role\": \"dev\", \"duration\": \"3 years\"}" -> <<3>>
      [] OTHER -> <<>>

RECURSIVE SumSeq(_)
SumSeq(q) == IF q = <<>> THEN 0 ELSE Head(q) + SumSeq(Tail(q))

\* level_requirements
LevelRange(level) ==
    CASE level \in {"entry", "junior"} -> <<0, 2>>
      [] level \in {"mid", "intermediate"} -> <<2, 5>>
      [] level = "senior" -> <<5, 10>>
      [] level = "expert" -> <<10, 20>>
      [] level = "lead" -> <<5, 15>>
      [] OTHER -> <<>>

Max(a, b) == IF a >= b THEN a ELSE b
Min(a, b) == IF a <= b THEN a ELSE b

\* the score that gives an overqualified candidate the full 1.0
FaultOverqualifiedFull(range, total_years) ==
    IF range # <<>>
    THEN IF range[1] <= total_years THEN 100
         ELSE Max(20, (total_years * 60) \div Max(range[1], 1))
    ELSE IF total_years >= 5 THEN 90
    ELSE IF total_years >= 2 THEN 70
    ELSE IF total_years >= 1 THEN 50
    ELSE 30

\* the score of total_years against the range of the level, <<>> the
\* range of a level that is absent or not in level_requirements
RangeScore(range, total_years) ==
    IF range # <<>>
    THEN IF range[1] <= total_years /\ total_years <= range[2] THEN 100
         ELSE IF total_years > range[2] THEN 80
         ELSE Max(20, (total_years * 60) \div Max(range[1], 1))
    ELSE IF total_years >= 5 THEN 90
    ELSE IF total_years >= 2 THEN 70
    ELSE IF total_years >= 1 THEN 50
    ELSE 30

\* the score of total_years against job_level, a string or None
LevelScore(job_level, total_years) ==
    RangeScore(IF job_level = Null THEN <<>>
               ELSE LevelRange(LowerStr(job_level)),
               total_years)

\* if year_count > 0: total_years = year_count
YearsOr(year_count, length) ==
    IF year_count > 0 THEN year_count ELSE length

\* total_years of a list: the years its entries name, or its length
ListYears(candidate_experience) ==
    YearsOr(SumSeq([i \in 1..Len(candidate_experience) |->
                      SumSeq(YearMatches(candidate_experience[i]))]),
            Len(candidate_experience))

\* CandidateMatcher.calculate_experience_match, experience a list of strings
calculate_experience_match(job_level, candidate_experience) ==
    IF candidate_experience = <<>>
    THEN IF job_level # Null /\ LowerStr(job_level) = "entry" THEN 10 ELSE 0
    ELSE LevelScore(job_level, ListYears(candidate_experience))

higher_ed_keywords ==
    {"bachelor", "master", "phd", "doctorate", "engineering",
     "computer science", "technology"}

\* keyword in education_text, the lowered entries joined by blanks
InEducation(keyword, education) ==
    \E i \in 1..Len(education) : InStr(keyword, LowerStr(education[i]))

\* CandidateMatcher.calculate_education_match, education a list of strings
calculate_education_match(job_requirements, candidate_education) ==
    IF candidate_education = <<>> THEN 30
    ELSE
      LET title == IF job_requirements.job_title \in {Null, Missing} THEN <<>>
                   ELSE <<LowerStr(job_requirements.job_title)>>
          company == IF job_requirements.company \in {Null, Missing} THEN <<>>
                     ELSE <<LowerStr(job_requirements.company)>>
          relevance_keywords ==
              title \o company \o safe_string_processing(job_requirements.skills)
          matches == Cardinality(
              {i \in 1..Len(relevance_keywords) :
                  InEducation(relevance_keywords[i], candidate_education)})
          base == IF matches > 0 THEN Min(50 + matches * 10, 100) ELSE 50
      IN  IF \E k \in higher_ed_keywords : InEducation(k, candidate_education)
          THEN Min(base + 10, 100)
          ELSE base

\* CandidateMatcher.calculate_overall_match: round(.6 s + .3 e + .1 d, 2)
calculate_overall_match(skills_score, experience_score, education_score) ==
    (60 * skills_score + 30 * experience_score + 10 * education_score + 50)
        \div 100

----------------------------------------------------------------------------
(* The scorer on arguments of any type                                      *)

\* the Python values passed to the scorer: None, a string, a number (s its
\* str()), a dict (name its 'name' entry, Missing without one; s its
\* json.dumps) and a list of such values
PyNone == [t |-> "none"]
PyStr(s) == [t |-> "str", s |-> s]
PyInt(s) == [t |-> "int", s |-> s]
PyDict(name, s) == [t |-> "dict", name |-> name, s |-> s]
PyList(items) == [t |-> "list", items |-> items]

\* bool(v)
Truthy(v) ==
    CASE v.t = "none" -> FALSE
      [] v.t = "str" -> v.s # ""
      [] v.t = "int" -> v.s # "0"
      [] v.t = "dict" -> v.s # "{}"
      [] v.t = "list" -> v.items # <<>>
      [] OTHER -> TRUE

\* items.split(',')
CommaSplit(s) ==
    CASE s = "Python, SQL" -> <<"Python", " SQL">>
      [] s = "Python," -> <<"Python", "">>
      [] OTHER -> <<s>>

\* what safe_string_processing appends for an item of a list, before
\* strip() and lower(): the string, str(item['name']), json.dumps(item)
\* or str(item)
ItemString(item) ==
    IF item.t = "dict" /\ item.name # Missing THEN item.name ELSE item.s

\* for item in items: if item is not None: processed.append(...)
RECURSIVE Processed(_)
Processed(items) ==
    IF items = <<>> THEN <<>>
    ELSE IF Head(items).t = "none" THEN Processed(Tail(items))
    ELSE <<ItemString(Head(items))>> \o Processed(Tail(items))

\* str(v): of None it is "None", of a dict taken here as its json.dumps
Str(v) == IF v.t = "none" THEN "None" ELSE v.s

\* the strings safe_string_processing lowers and keeps when not empty:
\* none of a false value or of a value that is neither str nor list
AsStrings(v) ==
    IF ~Truthy(v) THEN <<>>
    ELSE IF v.t = "str" THEN CommaSplit(v.s)
    ELSE IF v.t = "list" THEN Processed(v.items)
    ELSE <<>>

\* the cosine similarities lie in [-1, 1]: a backend whose rounded mean of
\* the best similarities is below 0
EmbeddingNeg == [ok |-> TRUE, score |-> [u \in UserIds |-> 0 - 3]]

\* CandidateMatcher.calculate_skills_match on arguments of any type
calculate_skills_match_any(job_skills, candidate_skills, emb, u) ==
    calculate_skills_match(AsStrings(job_skills), AsStrings(candidate_skills),
                           emb, u)

\* any(indicator in exp_lower for indicator in years_indicators)
HasYearsIndicator(s) ==
    s \in {"3 years as backend engineer", "6 years at acme", "0 years",
           "experience in sales"}

\* total_years of an experience that is not empty
TotalYears(candidate_experience) ==
    IF candidate_experience.t = "str"
    THEN IF HasYearsIndicator(candidate_experience.s) THEN 2 ELSE 1
    ELSE IF candidate_experience.t = "list"
    THEN ListYears([i \in 1..Len(candidate_experience.items) |->
                      Str(candidate_experience.items[i])])
    ELSE 1

\* CandidateMatcher.calculate_experience_match on arguments of any type;
\* job_level.lower() raises on a true value that is no string, and the
\* except clause returns 0.5
calculate_experience_match_any(job_level, candidate_experience) ==
    IF Truthy(job_level) /\ job_level.t # "str" THEN 50
    ELSE IF ~Truthy(candidate_experience)
    THEN IF Truthy(job_level) /\ LowerStr(job_level.s) = "entry"
         THEN 10 ELSE 0
    ELSE LevelScore(IF Truthy(job_level) THEN job_level.s ELSE Null,
                    TotalYears(candidate_experience))

\* a job_requirements dict with the entries the scorer reads
PyJob(job_title, company, skills) ==
    [t |-> "job", job_title |-> job_title, company |-> company,
     skills |-> skills]

\* job_title.lower() or company.lower() raises, or job_requirements.get
TitleRaises(job_requirements) ==
    /\ Truthy(job_requirements)
    /\ \/ job_requirements.t # "job"
       \/ Truthy(job_requirements.job_title)
            /\ job_requirements.job_title.t # "str"
       \/ Truthy(job_requirements.company)
            /\ job_requirements.company.t # "str"

\* the entry of the job read as a string, Null when it is false
TextOrNull(v) == IF Truthy(v) THEN v.s ELSE Null

\* the job_requirements the keywords are taken from
KeywordJob(job_requirements) ==
    IF ~Truthy(job_requirements)
    THEN [job_title |-> Null, company |-> Null, skills |-> <<>>]
    ELSE [job_title |-> TextOrNull(job_requirements.job_title),
          company |-> TextOrNull(job_requirements.company),
          skills |-> AsStrings(job_requirements.skills)]

\* the parts of education_text
EducationParts(candidate_education) ==
    IF candidate_education.t = "str" THEN <<candidate_education.s>>
    ELSE IF candidate_education.t = "list"
    THEN [i \in 1..Len(candidate_education.items) |->
            Str(candidate_education.items[i])]
    ELSE <<"">>

\* CandidateMatcher.calculate_education_match on arguments of any type;
\* the except clause returns 0.3
calculate_education_match_any(job_requirements, candidate_education) ==
    IF ~Truthy(candidate_education) THEN 30
    ELSE IF TitleRaises(job_requirements) THEN 30
    ELSE calculate_education_match(KeywordJob(job_requirements),
                                   EducationParts(candidate_education))

----------------------------------------------------------------------------
(* The ranker: CandidateMatcher.find_best_candidate and candidate_matcher  *)

\* job_requirements.get('experience_level', 'entry')
JobLevel(job) ==
    IF job.experience_level = Missing THEN "entry" ELSE job.experience_level

\* the dict appended to candidates (the fields in use)
Scored(user_id, skills_score, experience_score, education_score) ==
    [user_id |-> user_id,
     skills_match |-> skills_score,
     experience_match |-> experience_score,
     education_match |-> education_score,
     overall_score |-> calculate_overall_match(skills_score,
                                               experience_score,
                                               education_score)]

\* the body of the loop over profiles
ScoreCandidate(job, profile, emb) ==
    Scored(profile.user_id,
           calculate_skills_match(job.skills, profile.skills, emb,
                                  profile.user_id),
           calculate_experience_match(JobLevel(job), profile.experience),
           calculate_education_match(job, profile.education))

\* c put before the elements that score the same: a sort that is not
\* stable
RECURSIVE FaultInsertBeforeEqual(_, _)
FaultInsertBeforeEqual(q, c) ==
    IF q = <<>> THEN <<c>>
    ELSE IF Head(q).overall_score > c.overall_score
    THEN <<Head(q)>> \o FaultInsertBeforeEqual(Tail(q), c)
    ELSE <<c>> \o q

\* c put into the descending sequence q behind the elements that score
\* at least as much
RECURSIVE InsertDesc(_, _)
InsertDesc(q, c) ==
    IF q = <<>> THEN <<c>>
    ELSE IF Head(q).overall_score >= c.overall_score
    THEN <<Head(q)>> \o InsertDesc(Tail(q), c)
    ELSE <<c>> \o q

\* candidates.sort(key=lambda x: x['overall_score'], reverse=True)
RECURSIVE SortDesc(_)
SortDesc(q) ==
    IF q = <<>> THEN <<>>
    ELSE InsertDesc(SortDesc(SubSeq(q, 1, Len(q) - 1)), q[Len(q)])

NoCandidate ==
    [user_id |-> Null, skills_match |-> 0, experience_match |-> 0,
     education_match |-> 0, overall_score |-> 0]

\* the value of output.candidate_matching_result when the key is absent
NoResult ==
    [status |-> "none", message |-> "", best_candidate |-> NoCandidate,
     all_candidates |-> <<>>, total_candidates_evaluated |-> 0]

RankError(msg) == [NoResult EXCEPT !.status = "error", !.message = msg]

\* the result dict for the sorted candidates
RankResult(sorted) ==
    [status |-> "success", message |-> "",
     best_candidate |-> sorted[1],
     all_candidates |-> Take(sorted, 5),
     total_candidates_evaluated |-> Len(sorted)]

\* find_best_candidate once the job requirements and profiles are known
RankProfiles(job, profs, emb) ==
    IF job = NoJob THEN RankError("No job requirements provided")
    ELSE IF profs = <<>> THEN RankError("No valid profiles found")
    ELSE RankResult(SortDesc([i \in 1..Len(profs) |->
                                ScoreCandidate(job, profs[i], emb)]))

\* the profiles of the files dir lists, the sentinel's among them
LoadDirectory(st, dir) ==
    [i \in 1..Len(dir) |-> load_profile(st, dir[i]).ret]

\* CandidateMatcher.find_best_candidate; job = NoJob and profiles = <<>>
\* stand for the arguments left None; env carries the replies of the
\* language model, the embedding backend and the order of os.listdir
find_best_candidate(st, email_text, job_requirements, profiles, env) ==
    RankProfiles(
        IF job_requirements = NoJob /\ email_text # <<>>
        THEN interpret_email(email_text, env.reply, env.sector)
        ELSE job_requirements,
        IF profiles = <<>>
        THEN LoadDirectory(st, ListDir(st.store, env.order))
        ELSE profiles,
        env.emb)

----------------------------------------------------------------------------
(* The context dict handed from stage to stage                              *)

\* context["input"]: present says whether the key exists, keys which of
\* its entries do
EmptyInput ==
    [present |-> FALSE, keys |-> {}, email_text |-> <<>>,
     user_id |-> Missing, all_profiles |-> <<>>]

\* context["output"] == {}
EmptyOutput ==
    [keys |-> {}, job_info |-> NoJob, user_profile |-> NoProfile,
     selected_user_id |-> Null, selection_method |-> Null,
     candidate_matching_result |-> NoResult, best_candidate |-> NoCandidate,
     resume_path |-> NoPath, cover_letter_path |-> NoPath]

\* context without the "coordination" key
NoCoordination ==
    [present |-> FALSE, request_type |-> Missing, user_id |-> Missing,
     use_candidate_matcher |-> FALSE]

NoContext ==
    [input |-> EmptyInput, output |-> EmptyOutput, status |-> "none",
     error |-> "", coordination |-> NoCoordination]

\* {"status": "error", "error": msg, "output": {},
\*  "coordination": context.get("coordination", {})}
ErrorContext(context, msg) ==
    [input |-> EmptyInput, output |-> EmptyOutput, status |-> "error",
     error |-> msg,
     coordination |-> [context.coordination EXCEPT !.present = TRUE]]

\* context["output"]["candidate_matching_result"] = result
WithMatchingResult(context, result) ==
    [context EXCEPT
       !.output.keys = @ \cup {"candidate_matching_result"},
       !.output.candidate_matching_result = result]

\* candidate_matcher(context): the ranker's result goes to
\* output.candidate_matching_result, and to nothing else
candidate_matcher(st, context, env) ==
    WithMatchingResult(
        context,
        IF env.matcher_ok
        THEN find_best_candidate(st, context.input.email_text,
                                 IF "job_info" \in context.output.keys
                                 THEN context.output.job_info ELSE NoJob,
                                 context.input.all_profiles, env)
        ELSE RankError("Error in candidate matching"))

----------------------------------------------------------------------------
(* The legacy matcher and the Router: ProfileRetriever                      *)

\* set([s.lower().strip() for s in skills if s])
SkillSet(skills) ==
    {LowerStr(skills[i]) : i \in 1..Len(skills)} \ {""}

\* the id of ids with the first strictly greater overlap, from best on
RECURSIVE LegacyScan(_, _, _, _, _)
LegacyScan(st, ids, required_skills, best_score, best_user) ==
    IF ids = <<>> THEN best_user
    ELSE
      LET profile == load_profile(st, Head(ids)).ret
          match_score == Cardinality(SkillSet(profile.skills)
                                       \cap required_skills)
      IN  IF match_score > best_score
          THEN LegacyScan(st, Tail(ids), required_skills, match_score,
                          Head(ids))
          ELSE LegacyScan(st, Tail(ids), required_skills, best_score,
                          best_user)

\* best_user or self.DEFAULT_USER_ID
OrDefault(best_user) ==
    IF best_user = Null THEN DEFAULT_USER_ID ELSE best_user

\* ProfileRetriever.find_best_candidate(job_skills)
legacy_find_best_candidate(st, job_skills, order) ==
    OrDefault(LegacyScan(st,
                         Filter(ListDir(st.store, order),
                                UserIds \ {FIND_BEST_CANDIDATE_ID}),
                         SkillSet(job_skills), -1, Null))

\* the three assignments the handlers make to output, and status success
Selected(context, profile, user_id, method) ==
    [context EXCEPT
       !.output.keys = @ \cup {"user_profile", "selected_user_id",
                               "selection_method"},
       !.output.user_profile = profile,
       !.output.selected_user_id = user_id,
       !.output.selection_method = method,
       !.status = "success"]

\* the result of a handler: the context with the profile load_profile
\* returned, and the store and clock load_profile left
Attached(context, loaded, user_id, method) ==
    [ctx |-> Selected(context, loaded.ret, user_id, method),
     store |-> loaded.store, clock |-> loaded.clock]

\* load_profile(user_id) and the assignments to the context
LoadSelected(st, context, user_id, method) ==
    Attached(context, load_profile(st, user_id), user_id, method)

\* a handler's result with one more key in output
WithOutputKey(r, key) == [r EXCEPT !.ctx.output.keys = @ \cup {key}]

\* job_info.get("skills", []) or job_info.get("recommended_skills", [])
RequiredSkills(job_info) ==
    IF job_info.skills # <<>> THEN job_info.skills
    ELSE job_info.recommended_skills

\* ProfileRetriever._fallback_candidate_matching
_fallback_candidate_matching(st, context, env) ==
    WithOutputKey(
        LoadSelected(st, context,
                     legacy_find_best_candidate(
                         st, RequiredSkills(context.output.job_info),
                         env.order),
                     "legacy_matching"),
        "match_reason")

\* _handle_best_candidate_request giving up where it should fall back
FaultNoFallback(st, context, env) ==
    [ctx |-> ErrorContext(context, "No candidate profiles found"),
     store |-> st.store, clock |-> st.clock]

\* the Router's reading of the context candidate_matcher returned
AttachBest(st, result_context) ==
    IF /\ result_context.status = "success"
       /\ "best_candidate" \in result_context.output.keys
       /\ result_context.output.best_candidate.user_id # Null
    THEN \* the status is success already
         LoadSelected(st, result_context,
                      result_context.output.best_candidate.user_id,
                      "candidate_matcher")
    ELSE [ctx |-> result_context, store |-> st.store, clock |-> st.clock]

\* _handle_best_candidate_request after get_all_profiles
MatchProfiles(st, context, env, all_profiles) ==
    IF all_profiles = <<>>
    THEN [ctx |-> ErrorContext(context, "No candidate profiles found"),
          store |-> st.store, clock |-> st.clock]
    ELSE AttachBest(st,
                    candidate_matcher(
                        st,
                        [context EXCEPT
                           !.input.present = TRUE,
                           !.input.keys = @ \cup {"all_profiles"},
                           !.input.all_profiles = all_profiles],
                        env))

\* ProfileRetriever._handle_best_candidate_request
_handle_best_candidate_request(st, context, env) ==
    IF ~env.import_ok THEN _fallback_candidate_matching(st, context, env)
    ELSE MatchProfiles(st, context, env, get_all_profiles(st, env.order))

\* _handle_specific_user_request loading the default user's profile
FaultSpecificLoadsDefault(st, context, user_id) ==
    Attached(context, load_profile(st, DEFAULT_USER_ID), user_id,
             "specific_user_request")

\* ProfileRetriever._handle_specific_user_request
_handle_specific_user_request(st, context, user_id) ==
    LoadSelected(st, context, user_id, "specific_user_request")

\* _handle_general_request ignoring the user id it is given
FaultGeneralAlwaysDefault(st, context, user_id) ==
    LoadSelected(st, context, DEFAULT_USER_ID, "default_user")

\* ProfileRetriever._handle_general_request
_handle_general_request(st, context, user_id) ==
    LoadSelected(st, context,
                 IF user_id # FIND_BEST_CANDIDATE_ID THEN user_id
                 ELSE DEFAULT_USER_ID,
                 "default_user")

\* the dispatch of handle_coordination_logic
Dispatch(st, context, env, request_type, user_id, use_candidate_matcher) ==
    IF \/ request_type = "find_best_candidate"
       \/ user_id = FIND_BEST_CANDIDATE_ID
       \/ use_candidate_matcher
    THEN _handle_best_candidate_request(st, context, env)
    ELSE IF request_type = "specific_user"
    THEN _handle_specific_user_request(st, context, user_id)
    ELSE _handle_general_request(st, context, user_id)

\* ProfileRetriever.handle_coordination_logic
handle_coordination_logic(st, context, env) ==
    Dispatch(st, context, env,
             IF context.coordination.request_type = Missing
             THEN "general_job_posting"
             ELSE context.coordination.request_type,
             IF context.coordination.user_id = Missing THEN DEFAULT_USER_ID
             ELSE context.coordination.user_id,
             context.coordination.use_candidate_matcher)

\* profile_retriever(context), the Route stage
profile_retriever(st, context, env) ==
    IF context.coordination.present
    THEN handle_coordination_logic(st, context, env)
    ELSE WithOutputKey(
             LoadSelected(st, context,
                          IF "user_id" \in context.input.keys
                          THEN context.input.user_id ELSE "default_user",
                          "legacy_direct_call"),
             "retriever")

\* update_profile_paths writing both path fields, given or not
FaultPathsOverwriteOmitted(st, user_id, resume_path, cover_letter_path) ==
    save_profile([store |-> load_profile(st, user_id).store,
                  clock |-> load_profile(st, user_id).clock],
                 user_id,
                 [load_profile(st, user_id).ret EXCEPT
                    !.resume_path = resume_path,
                    !.cover_letter_path = cover_letter_path])

\* ProfileRetriever.update_profile_paths
update_profile_paths(st, user_id, resume_path, cover_letter_path) ==
    LET loaded == load_profile(st, user_id)
        profile == [loaded.ret EXCEPT
                      !.resume_path = IF resume_path # NoPath
                                      THEN resume_path ELSE @,
                      !.cover_letter_path = IF cover_letter_path # NoPath
                                            THEN cover_letter_path ELSE @]
    IN  save_profile([store |-> loaded.store, clock |-> loaded.clock],
                     user_id, profile)

----------------------------------------------------------------------------
(* The stages: Extract, and the three rendering stages                      *)

\* context["output"]["job_info"] = job_info and the coordination data
WithJobInfo(context, job_info) ==
    [context EXCEPT
       !.output.keys = @ \cup {"job_info"},
       !.output.job_info = job_info,
       !.status = "success",
       !.coordination = [present |-> TRUE,
                         request_type |-> job_info.request_type,
                         user_id |-> job_info.user_id,
                         use_candidate_matcher |->
                             job_info.use_candidate_matcher]]

\* email_interpreter(context); the constructor raises without an API key
email_interpreter(context, api_key, reply, sector_answer) ==
    IF ~api_key
    THEN [NoContext EXCEPT
            !.status = "error",
            !.error = "interpreter",
            !.coordination = [present |-> TRUE,
                              request_type |-> "general_job_posting",
                              user_id |-> "default_user",
                              use_candidate_matcher |-> FALSE]]
    ELSE WithJobInfo(context,
                     interpret_email(context.input.email_text, reply,
                                     sector_answer))

\* os.path.join(outputs_dir, user_id, name)
ArtifactPath(user_id, name) == <<"outputs", user_id, name>>

\* ResumeBuilder._find_relevant_skills raises NameError: the name user is
\* read before it is bound when the cleaned user skills are empty
FindRelevantSkillsRaises(user_skills, job_skills) ==
    job_skills # <<>> /\ safe_string_processing(user_skills) = <<>>

\* the KeyError of context["output"][...] and context["input"]["user_id"]
RenderKeysMissing(context) ==
    \/ "user_profile" \notin context.output.keys
    \/ "job_info" \notin context.output.keys
    \/ "user_id" \notin context.input.keys

\* resume_builder(context): fs is the set of files on disk, pdf_ok whether
\* pdfkit renders; the result says whether the stage raised
resume_builder(st, fs, context, pdf_ok) ==
    LET user_id == context.input.user_id
        f == st.store[user_id]
        cached == /\ f.state = "ok"
                  /\ f.rec.resume_path # NoPath
                  /\ f.rec.resume_path \in fs
        resume_path == IF cached THEN f.rec.resume_path
                       ELSE ArtifactPath(user_id, IF pdf_ok THEN "resume.pdf"
                                                  ELSE "resume.html")
        written == IF ~cached /\ f.state = "ok"
                   THEN [st.store EXCEPT ![user_id].rec.resume_path =
                                             resume_path]
                   ELSE st.store
        updated == IF "retriever" \in context.output.keys
                   THEN update_profile_paths(
                            [store |-> written, clock |-> st.clock],
                            user_id, resume_path, NoPath)
                   ELSE [store |-> written, clock |-> st.clock]
    IN  IF RenderKeysMissing(context)
        THEN [raised |-> TRUE, generated |-> FALSE, ctx |-> context,
              store |-> st.store, clock |-> st.clock, files |-> fs]
        ELSE IF ~cached /\ FindRelevantSkillsRaises(
                              context.output.user_profile.skills,
                              context.output.job_info.skills)
        THEN [raised |-> TRUE, generated |-> FALSE, ctx |-> context,
              store |-> st.store, clock |-> st.clock, files |-> fs]
        ELSE [raised |-> FALSE, generated |-> ~cached,
              ctx |-> [context EXCEPT
                         !.output.keys = @ \cup {"resume_path"},
                         !.output.resume_path = resume_path],
              store |-> updated.store, clock |-> updated.clock,
              files |-> fs \cup {resume_path}]

\* cover_letter_writer(context): always generates; the constructor raises
\* without an API key
cover_letter_writer(st, fs, context, api_key, pdf_ok) ==
    LET user_id == context.input.user_id
        cover_letter_path ==
            ArtifactPath(user_id, IF pdf_ok THEN "cover_letter.pdf"
                                  ELSE "cover_letter.html")
        updated == IF "retriever" \in context.output.keys
                   THEN update_profile_paths(st, user_id, NoPath,
                                             cover_letter_path)
                   ELSE [store |-> st.store, clock |-> st.clock]
    IN  IF ~api_key \/ RenderKeysMissing(context)
        THEN [raised |-> TRUE, generated |-> FALSE, ctx |-> context,
              store |-> st.store, clock |-> st.clock, files |-> fs]
        ELSE [raised |-> FALSE, generated |-> TRUE,
              ctx |-> [context EXCEPT
                         !.output.keys = @ \cup {"cover_letter_path"},
                         !.output.cover_letter_path = cover_letter_path],
              store |-> updated.store, clock |-> updated.clock,
              files |-> fs \cup {cover_letter_path}]

\* reply_email_generator(context)
reply_email_generator(context, api_key) ==
    IF \/ ~api_key
       \/ {"user_profile", "job_info", "resume_path", "cover_letter_path"}
             \ context.output.keys # {}
    THEN [raised |-> TRUE, ctx |-> context]
    ELSE [raised |-> FALSE,
          ctx |-> [context EXCEPT
                     !.output.keys = @ \cup {"email_body", "email_subject"}]]

----------------------------------------------------------------------------
(* The state machine: MCPOrchestrator.process_email over the five stages,   *)
(* and the server's /tools/profile_retriever endpoint                       *)

\* the profiles on disk before the first run
ProfileAlice ==
    [DefaultProfile("alice") EXCEPT
       !.skills = <<"python", "sql", "docker">>,
       !.experience = <<"3 years as backend engineer">>,
       !.education = <<"BSc Computer Science">>,
       !.created_at = 1, !.updated_at = 1]
ProfileBob ==
    [DefaultProfile("bob") EXCEPT
       !.skills = <<"mysql">>,
       !.education = <<"Diploma in Python">>,
       !.created_at = 1, !.updated_at = 1]
SavedDefault(u) ==
    [DefaultProfile(u) EXCEPT !.created_at = 1, !.updated_at = 1]

InitialStores ==
    {[u \in UserIds |->
        CASE u = "alice" -> a
          [] u = "bob" -> b
          [] u = DEFAULT_USER_ID -> d
          [] u = FIND_BEST_CANDIDATE_ID -> s
          [] OTHER -> Absent] :
     a \in {Absent, Corrupt, Stored(ProfileAlice)},
     b \in {Absent, Stored(ProfileBob)},
     d \in {Absent, Stored(SavedDefault(DEFAULT_USER_ID))},
     s \in {Absent, Stored(SavedDefault(FIND_BEST_CANDIDATE_ID))}}

\* the user ids process_email is called with
CallerIds == {"alice", DEFAULT_USER_ID}

\* what the run observes of its environment: which entry point it came
\* through, whether OPENAI_API_KEY is set, the language-model calls the
\* Extract stage made, whether the Router could import candidate_matcher,
\* and the store the Router found
NoRun ==
    [host |-> "none", api_key |-> FALSE, llm_calls |-> <<>>,
     import_ok |-> FALSE, before |-> [u \in UserIds |-> Absent]]

\* no store operation called yet
NoCall ==
    [op |-> "none", user_id |-> Null, before |-> [u \in UserIds |-> Absent],
     at |-> 0, ret |-> NoProfile, data |-> NoProfile, field |-> Null,
     resume_path |-> NoPath, cover_letter_path |-> NoPath,
     disk |-> {}, raised |-> FALSE, generated |-> FALSE]

\* the environment of one Router call
RouterEnv(import_ok, order, matcher_ok, emb, reply, sector) ==
    [import_ok |-> import_ok, order |-> order, matcher_ok |-> matcher_ok,
     emb |-> emb, reply |-> reply, sector |-> sector]

\* context = {"input": {"email_text": ..., "user_id": ...}, "output": {}}
InitialContext(email_text, user_id) ==
    [NoContext EXCEPT
       !.input = [present |-> TRUE, keys |-> {"email_text", "user_id"},
                  email_text |-> email_text, user_id |-> user_id,
                  all_profiles |-> <<>>]]

Init ==
    /\ store \in InitialStores
    /\ files = {}
    /\ clock = 2
    /\ ctx = NoContext
    /\ pc = "idle"
    /\ log = <<>>
    /\ runs = 0
    /\ xout = NoRun
    /\ last = NoCall
    /\ tasks = <<>>

\* MCPOrchestrator.process_email, up to the loop over the stages
process_email(email_text, user_id) ==
    /\ pc = "idle"
    /\ runs < MaxRuns
    /\ ctx' = InitialContext(email_text, user_id)
    /\ pc' = "email_interpreter"
    /\ log' = <<>>
    /\ runs' = runs + 1
    /\ \E api_key \in BOOLEAN :
          xout' = [NoRun EXCEPT !.host = "orchestrator",
                                !.api_key = api_key]
    /\ last' = NoCall
    /\ UNCHANGED <<store, files, clock, tasks>>

\* stage 1, Extract
email_interpreter_stage ==
    /\ pc = "email_interpreter"
    /\ \E reply \in LlmReplies, sector_answer \in SectorAnswers :
          /\ ctx' = email_interpreter(ctx, xout.api_key, reply, sector_answer)
          /\ xout' = [xout EXCEPT !.llm_calls = IF xout.api_key
                                                THEN LlmCalls(reply)
                                                ELSE <<>>]
    /\ pc' = "profile_retriever"
    /\ log' = Append(log, "email_interpreter")
    /\ UNCHANGED <<store, files, clock, runs>>
    /\ UNCHANGED <<last, tasks>>

\* stage 2, Route: the orchestrator loads the stage modules as top-level
\* modules, where "from . import candidate_matcher" raises ImportError
profile_retriever_stage ==
    /\ pc = "profile_retriever"
    /\ \E order \in ListOrders :
          \E r \in {profile_retriever(
                         [store |-> store, clock |-> clock], ctx,
                         RouterEnv(FALSE, order, xout.api_key, NoEmbedding,
                                   ReplyError, "unknown"))} :
              /\ ctx' = r.ctx
              /\ store' = r.store
              /\ clock' = r.clock
    /\ xout' = [xout EXCEPT !.import_ok = FALSE, !.before = store]
    /\ pc' = "resume_builder"
    /\ log' = Append(log, "profile_retriever")
    /\ UNCHANGED <<files, runs>>
    /\ UNCHANGED <<last, tasks>>

\* stage 3; an exception of a stage is re-raised by process_email
resume_builder_stage ==
    /\ pc = "resume_builder"
    /\ \E pdf_ok \in BOOLEAN :
          \E r \in {resume_builder([store |-> store, clock |-> clock],
                                    files, ctx, pdf_ok)} :
              /\ ctx' = r.ctx
              /\ store' = r.store
              /\ clock' = r.clock
              /\ files' = r.files
              /\ pc' = IF r.raised THEN "raised" ELSE "cover_letter_writer"
              /\ log' = IF r.raised THEN log
                        ELSE Append(log, "resume_builder")
    /\ UNCHANGED <<runs, xout>>
    /\ UNCHANGED <<last, tasks>>

\* stage 4
cover_letter_writer_stage ==
    /\ pc = "cover_letter_writer"
    /\ \E pdf_ok \in BOOLEAN :
          \E r \in {cover_letter_writer([store |-> store, clock |-> clock],
                                         files, ctx, xout.api_key, pdf_ok)} :
              /\ ctx' = r.ctx
              /\ store' = r.store
              /\ clock' = r.clock
              /\ files' = r.files
              /\ pc' = IF r.raised THEN "raised"
                       ELSE "reply_email_generator"
              /\ log' = IF r.raised THEN log
                        ELSE Append(log, "cover_letter_writer")
    /\ UNCHANGED <<runs, xout>>
    /\ UNCHANGED <<last, tasks>>

\* stage 5
reply_email_generator_stage ==
    /\ pc = "reply_email_generator"
    /\ \E r \in {reply_email_generator(ctx, xout.api_key)} :
           /\ ctx' = r.ctx
           /\ pc' = IF r.raised THEN "raised" ELSE "done"
           /\ log' = IF r.raised THEN log
                     ELSE Append(log, "reply_email_generator")
    /\ UNCHANGED <<store, files, clock, runs, xout>>
    /\ UNCHANGED <<last, tasks>>

\* process_email returns the context, or the exception propagates
process_email_return ==
    /\ pc \in {"done", "raised"}
    /\ pc' = "idle"
    /\ UNCHANGED <<store, files, clock, ctx, log, runs, xout>>
    /\ UNCHANGED <<last, tasks>>

\* the coordination records handed to the endpoint: those Extract writes,
\* a general or unrecognized kind carrying a user id, and an empty one
Coordination(request_type, user_id, use_candidate_matcher) ==
    [present |-> TRUE, request_type |-> request_type, user_id |-> user_id,
     use_candidate_matcher |-> use_candidate_matcher]

Coordinations ==
    {Coordination("find_best_candidate", FIND_BEST_CANDIDATE_ID, TRUE),
     Coordination("specific_user", "alice", FALSE),
     Coordination("general_job_posting", DEFAULT_USER_ID, FALSE),
     Coordination("general_job_posting", "alice", FALSE),
     Coordination("follow_up", "bob", FALSE),
     Coordination(Missing, Missing, FALSE),
     NoCoordination}

\* a context posted to the endpoint: an email, with or without the
\* job_info of Extract, the status left by the stage before or none
PostedContext(with_job, status, coordination) ==
    [NoContext EXCEPT
       !.input = [EmptyInput EXCEPT !.present = TRUE,
                                    !.keys = {"email_text"},
                                    !.email_text = MailFindBest],
       !.output = IF with_job
                  THEN [EmptyOutput EXCEPT
                          !.keys = {"job_info"},
                          !.job_info = interpret_email(MailFindBest,
                                                       ReplyFull,
                                                       "technology")]
                  ELSE EmptyOutput,
       !.status = status,
       !.coordination = coordination]

EndpointContexts ==
    {PostedContext(TRUE, status, coordination) :
        status \in {"none", "success"}, coordination \in Coordinations}
    \cup {PostedContext(FALSE, "none", Coordination("find_best_candidate",
                                                   FIND_BEST_CANDIDATE_ID,
                                                   TRUE))}

\* profile_retriever_endpoint of the server, which imports the stage
\* modules from the package mcp_modules: the relative import succeeds
profile_retriever_endpoint(context) ==
    /\ pc = "idle"
    /\ runs < MaxRuns
    /\ \E api_key \in BOOLEAN, order \in ListOrders, emb \in Embeddings :
          \E r \in {profile_retriever(
                         [store |-> store, clock |-> clock],
                         [context EXCEPT
                            !.input.keys = @ \cup {"user_id"},
                            !.input.user_id = "default_user"],
                         RouterEnv(TRUE, order, api_key, emb, ReplyFull,
                                   "technology"))} :
              /\ ctx' = r.ctx
              /\ store' = r.store
              /\ clock' = r.clock
              /\ xout' = [NoRun EXCEPT !.host = "package",
                                       !.api_key = api_key,
                                       !.import_ok = TRUE,
                                       !.before = store]
    /\ pc' = "done"
    /\ log' = <<"profile_retriever">>
    /\ runs' = runs + 1
    /\ last' = NoCall
    /\ UNCHANGED <<files, tasks>>

Next ==
    \/ \E email_text \in ScenarioMails, user_id \in CallerIds :
          process_email(email_text, user_id)
    \/ email_interpreter_stage
    \/ profile_retriever_stage
    \/ resume_builder_stage
    \/ cover_letter_writer_stage
    \/ reply_email_generator_stage
    \/ process_email_return
    \/ \E context \in EndpointContexts : profile_retriever_endpoint(context)

Spec == Init /\ [][Next]_vars

----------------------------------------------------------------------------
(* The store's operations called one after the other, after the runs       *)

\* the user the operations are called for; bob's record is the other one
StoreUsers == {"alice"}

\* a profile file written by hand: no user_id, no timestamps
HandWritten ==
    [NoProfile EXCEPT
       !.name = "Alice", !.email = "alice@example.com",
       !.skills = <<"python">>]

\* the stores the operations start from
InitialStoreStates ==
    {[u \in UserIds |->
        CASE u = "alice" -> a
          [] u = "bob" -> b
          [] OTHER -> Absent] :
     a \in {Absent, Corrupt, Stored(ProfileAlice), Stored(HandWritten)},
     b \in {Absent, Stored(ProfileBob)}}

\* the dicts save_profile is called with: a fresh one without timestamps,
\* and one that carries another user's id and a created_at
SaveData(u) ==
    {[DefaultProfile(u) EXCEPT !.skills = <<"go">>],
     [ProfileBob EXCEPT !.name = "Alice B"]}

\* the fields update_profile_field is called with, and their values
FieldEdits ==
    {<<"name", "Renamed">>, <<"user_id", "bob">>, <<"created_at", NoTime>>}

\* the record of a call: what it was given and what it found
Call(op, user_id, ret, data, field, resume_path, cover_letter_path) ==
    [op |-> op, user_id |-> user_id, before |-> store, at |-> clock,
     ret |-> ret, data |-> data, field |-> field,
     resume_path |-> resume_path, cover_letter_path |-> cover_letter_path,
     disk |-> files, raised |-> FALSE, generated |-> FALSE]

\* the effect of an operation that returned r on the store and the clock;
\* the operation is called outside a run, with no context, and the runs of
\* the behaviour are over
StoreStep(r) ==
    /\ store' = r.store
    /\ clock' = r.clock
    /\ ctx' = NoContext
    /\ log' = <<>>
    /\ xout' = NoRun
    /\ runs' = MaxRuns
    /\ UNCHANGED <<files, pc, tasks>>

\* the operations are called between runs, a bounded number of times
Callable == pc = "idle" /\ clock < MaxClock

\* the state the operations are called in
Here == [store |-> store, clock |-> clock]

load_profile_call(u) ==
    /\ Callable
    /\ \E r \in {load_profile(Here, u)} :
          /\ StoreStep(r)
          /\ last' = Call("load_profile", u, r.ret, NoProfile, Null,
                          NoPath, NoPath)

save_profile_call(u) ==
    /\ Callable
    /\ \E profile_data \in SaveData(u) :
          \E r \in {save_profile(Here, u, profile_data)} :
             /\ StoreStep(r)
             /\ last' = Call("save_profile", u, r.ret, profile_data, Null,
                             NoPath, NoPath)

\* save_profile(user_id, load_profile(user_id))
save_loaded_call(u) ==
    /\ Callable
    /\ \E loaded \in {load_profile(Here, u)} :
          \E r \in {save_profile([store |-> loaded.store,
                                  clock |-> loaded.clock], u, loaded.ret)} :
             /\ StoreStep(r)
             /\ last' = Call("save_loaded", u, r.ret, loaded.ret, Null,
                             NoPath, NoPath)

get_all_profiles_call ==
    /\ Callable
    /\ \E order \in ListOrders :
          \E all \in {get_all_profiles(Here, order)} :
             last' = Call("get_all_profiles", Null,
                          IF all = <<>> THEN NoProfile ELSE all[1],
                          NoProfile, Null, NoPath, NoPath)
    /\ StoreStep(Here)

update_profile_paths_call(u) ==
    /\ Callable
    /\ \E resume_path \in {NoPath, ArtifactPath(u, "resume.pdf")},
          cover_letter_path \in {NoPath,
                                 ArtifactPath(u, "cover_letter.pdf")} :
          \E r \in {update_profile_paths(Here, u, resume_path,
                                         cover_letter_path)} :
             /\ StoreStep(r)
             /\ last' = Call("update_profile_paths", u, r.ret, NoProfile,
                             Null, resume_path, cover_letter_path)

update_profile_field_call(u) ==
    /\ Callable
    /\ \E edit \in FieldEdits :
          \E r \in {update_profile_field(Here, u, edit[1], edit[2])} :
             /\ StoreStep(r)
             /\ last' = Call("update_profile_field", u, r.ret, NoProfile,
                             edit[1], NoPath, NoPath)

add_skill_call(u) ==
    /\ Callable
    /\ \E skill \in {"python", "go"} :
          \E r \in {add_skill(Here, u, skill)} :
             /\ StoreStep(r)
             /\ last' = Call("add_skill", u, r.ret, NoProfile, Null,
                             NoPath, NoPath)

add_experience_call(u) ==
    /\ Callable
    /\ \E r \in {add_experience(Here, u, "1 year as intern")} :
          /\ StoreStep(r)
          /\ last' = Call("add_experience", u, r.ret, NoProfile, Null,
                          NoPath, NoPath)

add_education_call(u) ==
    /\ Callable
    /\ \E r \in {add_education(Here, u, "MSc Data Science")} :
          /\ StoreStep(r)
          /\ last' = Call("add_education", u, r.ret, NoProfile, Null,
                          NoPath, NoPath)

\* the job of the contexts the rendering stages are called with
RenderJob == interpret_email(MailGeneral, ReplyFull, "technology")

\* the contexts the rendering stages are called with directly: the profile
\* and the job are set, the retriever is there after a legacy direct call
RenderContext(u, with_retriever) ==
    [InitialContext(MailGeneral, u) EXCEPT
       !.output = [EmptyOutput EXCEPT
                     !.keys = {"job_info", "user_profile"}
                              \cup (IF with_retriever THEN {"retriever"}
                                    ELSE {}),
                     !.job_info = RenderJob,
                     !.user_profile = ProfileAlice],
       !.status = "success"]

\* the effect of a rendering stage called directly
RenderStep(r) ==
    /\ store' = r.store
    /\ clock' = r.clock
    /\ files' = r.files
    /\ ctx' = r.ctx
    /\ log' = <<>>
    /\ xout' = NoRun
    /\ runs' = MaxRuns
    /\ UNCHANGED <<pc, tasks>>

\* what a rendering stage called directly did
Rendered(op, u, r) ==
    [Call(op, u, NoProfile, NoProfile, Null, r.ctx.output.resume_path,
          r.ctx.output.cover_letter_path)
       EXCEPT !.raised = r.raised, !.generated = r.generated]

\* resume_builder(context) called directly
resume_builder_call(u) ==
    /\ Callable
    /\ \E with_retriever \in BOOLEAN, pdf_ok \in BOOLEAN :
          \E r \in {resume_builder(Here, files,
                                   RenderContext(u, with_retriever),
                                   pdf_ok)} :
             /\ RenderStep(r)
             /\ last' = Rendered("resume_builder", u, r)

\* cover_letter_writer(context) called directly
cover_letter_writer_call(u) ==
    /\ Callable
    /\ \E with_retriever \in BOOLEAN, pdf_ok \in BOOLEAN,
          api_key \in BOOLEAN :
          \E r \in {cover_letter_writer(Here, files,
                                        RenderContext(u, with_retriever),
                                        api_key, pdf_ok)} :
             /\ RenderStep(r)
             /\ last' = Rendered("cover_letter_writer", u, r)

StoreOperation ==
    \E u \in StoreUsers :
       \/ load_profile_call(u)
       \/ save_profile_call(u)
       \/ save_loaded_call(u)
       \/ update_profile_paths_call(u)
       \/ update_profile_field_call(u)
       \/ add_skill_call(u)
       \/ add_experience_call(u)
       \/ add_education_call(u)

InitStore ==
    /\ store \in InitialStoreStates
    /\ files = {}
    /\ clock = 2
    /\ ctx = NoContext
    /\ pc = "idle"
    /\ log = <<>>
    /\ runs = 0
    /\ xout = NoRun
    /\ last = NoCall
    /\ tasks = <<>>

NextStore ==
    \/ StoreOperation
    \/ get_all_profiles_call
    \/ Next

SpecStore == InitStore /\ [][NextStore]_vars

\* the rendering stages called directly, one call after the other, and the
\* paths recorded in between
NextRender ==
    \E u \in StoreUsers :
       \/ resume_builder_call(u)
       \/ cover_letter_writer_call(u)
       \/ update_profile_paths_call(u)

SpecRender == InitStore /\ [][NextRender]_vars

----------------------------------------------------------------------------
(* Two runs writing the profile of one user at the same time: the steps of *)
(* load_profile and save_profile of the two interleave                     *)

\* the user both runs write
RaceUser == "alice"

\* the two runs
TaskIds == {1, 2}

\* what a run does to the profile: update_profile_paths with a resume
\* path, update_profile_paths with a cover-letter path, or the resume
\* stage's own rewrite of the profile file
TaskKinds == {"update_resume", "update_cover", "resume_rewrite"}

\* a run about to start its operation; partial says whether it has read a
\* file that another run had opened for writing and not yet written
Task(kind) ==
    [kind |-> kind, at |-> "load", profile |-> NoProfile, partial |-> FALSE]

\* the path arguments of the operation
TaskResume(kind) ==
    IF kind = "update_cover" THEN NoPath
    ELSE ArtifactPath(RaceUser, "resume.pdf")
TaskCover(kind) ==
    IF kind = "update_cover" THEN ArtifactPath(RaceUser, "cover_letter.pdf")
    ELSE NoPath

\* the assignments of update_profile_paths to the profile it loaded
WithPaths(profile, resume_path, cover_letter_path) ==
    [profile EXCEPT
       !.resume_path = IF resume_path # NoPath THEN resume_path ELSE @,
       !.cover_letter_path = IF cover_letter_path # NoPath
                             THEN cover_letter_path ELSE @]

\* some other run has opened the file for writing and not yet written it
Truncated(i) == \E j \in TaskIds \ {i} : tasks[j].at = "dump"

\* profile = self.load_profile(user_id) and the assignments of the paths;
\* a file that is being written does not parse, and load_profile returns
\* the default profile
load_step(i) ==
    /\ tasks[i].at = "load"
    /\ tasks[i].kind # "resume_rewrite"
    /\ \E loaded \in {load_profile(Here, RaceUser)} :
          /\ store' = loaded.store
          /\ clock' = loaded.clock
          /\ tasks' = [tasks EXCEPT
                         ![i].at = "open",
                         ![i].partial = Truncated(i),
                         ![i].profile = WithPaths(loaded.ret,
                                                  TaskResume(tasks[i].kind),
                                                  TaskCover(tasks[i].kind))]
    /\ UNCHANGED <<files, ctx, pc, log, runs, xout, last>>

\* the resume stage reading the profile file before it rewrites it: with no
\* file, or one that does not parse, nothing is written
read_step(i) ==
    /\ tasks[i].at = "load"
    /\ tasks[i].kind = "resume_rewrite"
    /\ tasks' = [tasks EXCEPT
                   ![i].at = IF store[RaceUser].state = "ok" THEN "rewrite"
                             ELSE "done",
                   ![i].partial = Truncated(i),
                   ![i].profile =
                      IF store[RaceUser].state = "ok"
                      THEN [store[RaceUser].rec EXCEPT
                              !.resume_path = TaskResume(tasks[i].kind)]
                      ELSE NoProfile]
    /\ UNCHANGED <<store, clock, files, ctx, pc, log, runs, xout, last>>

\* save_profile up to open(profile_path, 'w'): the dict is stamped and the
\* file is truncated
open_step(i) ==
    /\ tasks[i].at \in {"open", "rewrite"}
    /\ store' = [store EXCEPT ![RaceUser] = Corrupt]
    /\ clock' = IF tasks[i].at = "open" THEN clock + 1 ELSE clock
    /\ tasks' = [tasks EXCEPT
                   ![i].at = "dump",
                   ![i].profile =
                      IF tasks[i].at = "open"
                      THEN [@ EXCEPT !.user_id = RaceUser,
                                     !.updated_at = clock,
                                     !.created_at = IF @ = NoTime THEN clock
                                                    ELSE @]
                      ELSE @]
    /\ UNCHANGED <<files, ctx, pc, log, runs, xout, last>>

\* json.dump(profile_data, f) and the file closed
dump_step(i) ==
    /\ tasks[i].at = "dump"
    /\ store' = [store EXCEPT ![RaceUser] = Stored(tasks[i].profile)]
    /\ tasks' = [tasks EXCEPT ![i].at = "done"]
    /\ UNCHANGED <<clock, files, ctx, pc, log, runs, xout, last>>

InitRace ==
    /\ store \in InitialStoreStates
    /\ store[RaceUser].state # "corrupt"
    /\ files = {}
    /\ clock = 2
    /\ ctx = NoContext
    /\ pc = "idle"
    /\ log = <<>>
    /\ runs = 0
    /\ xout = NoRun
    /\ last = [NoCall EXCEPT !.op = "concurrent", !.user_id = RaceUser,
                             !.before = store, !.at = clock]
    /\ tasks \in {<<Task(a), Task(b)>> : a, b \in TaskKinds}

NextRace ==
    \E i \in TaskIds :
       \/ load_step(i)
       \/ read_step(i)
       \/ open_step(i)
       \/ dump_step(i)

SpecRace == InitRace /\ [][NextRace]_vars

----------------------------------------------------------------------------
(* The Extract stage alone, over every short email                          *)

\* the emails of at most MaxWords words, and the scenario emails
ExtractEmails ==
    UNION {[1..n -> ShortVocab] : n \in 1..MaxWords} \cup ScenarioMails

InitExtract ==
    /\ store = [u \in UserIds |-> Absent]
    /\ files = {}
    /\ clock = 2
    /\ \E email_text \in ExtractEmails :
          ctx = InitialContext(email_text, DEFAULT_USER_ID)
    /\ pc = "email_interpreter"
    /\ log = <<>>
    /\ runs = 1
    /\ \E api_key \in BOOLEAN :
          xout = [NoRun EXCEPT !.host = "orchestrator", !.api_key = api_key]
    /\ last = NoCall
    /\ tasks = <<>>

NextExtract == email_interpreter_stage

SpecExtract == InitExtract /\ [][NextExtract]_vars

----------------------------------------------------------------------------
(* The scorer's three functions called on their own                         *)

\* the longest list of strings passed for a list of skills or of entries
MaxItems == 2

\* the lists of at most MaxItems strings of vocab
StrLists(vocab) ==
    {PyList([i \in DOMAIN q |-> PyStr(q[i])]) :
        q \in UNION {[1..n -> vocab] : n \in 0..MaxItems}}

\* arguments that are no list of strings
Malformed ==
    {PyNone, PyStr(""), PyInt("7"), PyInt("0"),
     PyList(<<PyNone, PyStr(" ")>>),
     PyList(<<PyDict("Python", "{\"name\": \"Python\"}"), PyInt("7")>>)}

SkillArgs ==
    StrLists({"Python", "SQL", "MySQL", "React", " "})
        \cup Malformed
        \cup {PyStr("Python, SQL"), PyStr("Python,"),
              PyList(<<PyStr("python"), PyStr("sql"), PyStr("docker")>>)}

LevelArgs ==
    {PyStr(l) : l \in {"entry", "Entry", "junior", "mid", "intermediate",
                       "senior", "Senior", "expert", "lead", "principal"}}
        \cup {PyNone, PyStr(""), PyInt("3"), PyList(<<PyStr("senior")>>)}

ExperienceArgs ==
    StrLists({"3 years as backend engineer", "6 years at acme",
              "intern at acme", "0 years"})
        \cup Malformed
        \cup {PyStr("6 years at acme"), PyStr("intern at acme"),
              PyStr("experience in sales"),
              PyList(<<PyDict(Missing,
                  "{\"role\": \"dev\", \"duration\": \"3 years\"}")>>)}

JobArgs ==
    {PyNone, PyInt("7")}
        \cup {PyJob(title, company, skills) :
                title \in {PyStr("Backend Engineer"), PyNone, PyInt("7")},
                company \in {PyStr("TechCorp"), PyNone, PyInt("7")},
                skills \in {PyList(<<PyStr("Python")>>), PyNone,
                            PyStr("Python, SQL"), PyInt("7")}}

EducationArgs ==
    StrLists({"BSc Computer Science", "Diploma in Python", "High school"})
        \cup Malformed
        \cup {PyStr("BSc Computer Science"),
              PyList(<<PyDict(Missing, "{\"degree\": \"Master\"}")>>)}

ScoreEmbeddings == Embeddings \cup {EmbeddingNeg}

InitScore ==
    /\ store = [u \in UserIds |-> Absent]
    /\ files = {}
    /\ clock = 2
    /\ ctx = NoContext
    /\ pc = "idle"
    /\ log = <<>>
    /\ runs = 0
    /\ xout = NoRun
    /\ last = [op |-> "none"]
    /\ tasks = <<>>

\* calculate_skills_match(job_skills, candidate_skills)
calculate_skills_match_call ==
    /\ last.op = "none"
    /\ \E job_skills \in SkillArgs, candidate_skills \in SkillArgs,
          emb \in ScoreEmbeddings :
          last' = [op |-> "calculate_skills_match",
                   job |-> job_skills, candidate |-> candidate_skills,
                   emb |-> emb,
                   ret |-> calculate_skills_match_any(
                               job_skills, candidate_skills, emb, "alice")]
    /\ UNCHANGED <<store, files, clock, ctx, pc, log, runs, xout, tasks>>

\* calculate_experience_match(job_level, candidate_experience)
calculate_experience_match_call ==
    /\ last.op = "none"
    /\ \E job_level \in LevelArgs, candidate_experience \in ExperienceArgs :
          last' = [op |-> "calculate_experience_match",
                   job |-> job_level, candidate |-> candidate_experience,
                   emb |-> NoEmbedding,
                   ret |-> calculate_experience_match_any(
                               job_level, candidate_experience)]
    /\ UNCHANGED <<store, files, clock, ctx, pc, log, runs, xout, tasks>>

\* calculate_education_match(job_requirements, candidate_education)
calculate_education_match_call ==
    /\ last.op = "none"
    /\ \E job_requirements \in JobArgs, candidate_education \in EducationArgs :
          last' = [op |-> "calculate_education_match",
                   job |-> job_requirements,
                   candidate |-> candidate_education,
                   emb |-> NoEmbedding,
                   ret |-> calculate_education_match_any(
                               job_requirements, candidate_education)]
    /\ UNCHANGED <<store, files, clock, ctx, pc, log, runs, xout, tasks>>

NextScore ==
    \/ calculate_skills_match_call
    \/ calculate_experience_match_call
    \/ calculate_education_match_call

SpecScore == InitScore /\ [][NextScore]_vars

----------------------------------------------------------------------------
(* The ranker, the legacy matcher and the listing called on their own       *)

\* the longest sequence of profiles passed to the ranker
MaxProfiles == 3

\* the profiles passed to the ranker: two of them have no skills, no
\* experience and no education, and so score the same
RankPool ==
    {ProfileAlice, ProfileBob, SavedDefault(DEFAULT_USER_ID),
     SavedDefault("this"), SavedDefault(FIND_BEST_CANDIDATE_ID)}

\* the sequences of at most MaxProfiles different profiles
RankInputs ==
    {q \in UNION {[1..n -> RankPool] : n \in 0..MaxProfiles} :
        \A i, j \in DOMAIN q : i # j => q[i] # q[j]}

RankJobs ==
    {RenderJob,
     [RenderJob EXCEPT !.skills = <<"React">>, !.experience_level = Missing]}

InitRank ==
    /\ store \in InitialStores
    /\ files = {}
    /\ clock = 2
    /\ ctx = NoContext
    /\ pc = "idle"
    /\ log = <<>>
    /\ runs = 0
    /\ xout = NoRun
    /\ last = [op |-> "none"]
    /\ tasks = <<>>

\* CandidateMatcher().find_best_candidate(email_text, job_requirements,
\* profiles)
find_best_candidate_call ==
    /\ last.op = "none"
    /\ \E email_text \in {<<>>, MailFindBest},
          job_requirements \in RankJobs \cup {NoJob},
          profiles \in RankInputs,
          order \in ListOrders :
          last' = [op |-> "find_best_candidate",
                   email_text |-> email_text,
                   job |-> job_requirements,
                   profiles |-> profiles,
                   order |-> order,
                   ret |-> find_best_candidate(
                               Here, email_text, job_requirements, profiles,
                               RouterEnv(TRUE, order, TRUE, NoEmbedding,
                                         ReplyFull, "technology"))]
    /\ UNCHANGED <<store, files, clock, ctx, pc, log, runs, xout, tasks>>

\* ProfileRetriever().find_best_candidate(job_skills)
legacy_find_best_candidate_call ==
    /\ last.op = "none"
    /\ \E job_skills \in {<<"Python", "SQL">>, <<"MySQL">>, <<"React">>, <<>>},
          order \in ListOrders :
          last' = [op |-> "legacy_find_best_candidate",
                   job_skills |-> job_skills,
                   order |-> order,
                   ret |-> legacy_find_best_candidate(Here, job_skills,
                                                      order)]
    /\ UNCHANGED <<store, files, clock, ctx, pc, log, runs, xout, tasks>>

\* ProfileRetriever().get_all_profiles()
list_all_call ==
    /\ last.op = "none"
    /\ \E order \in ListOrders :
          last' = [op |-> "get_all_profiles",
                   order |-> order,
                   ret |-> get_all_profiles(Here, order)]
    /\ UNCHANGED <<store, files, clock, ctx, pc, log, runs, xout, tasks>>

NextRank ==
    \/ find_best_candidate_call
    \/ legacy_find_best_candidate_call
    \/ list_all_call

SpecRank == InitRank /\ [][NextRank]_vars

----------------------------------------------------------------------------
(* Properties of the Router                                                 *)

\* the stages that have run in the current call
Ran == {log[i] : i \in 1..Len(log)}

\* ctx is the context the Router has just returned
Routed == log # <<>> /\ log[Len(log)] = "profile_retriever"

\* the Router was handed coordination data of the given kind
RoutedKind(request_type) ==
    /\ Routed
    /\ ctx.coordination.present
    /\ ctx.coordination.request_type = request_type

\* the Router was handed coordination data asking for user_id by a kind
\* that is neither a best-candidate search nor a named user
RoutedGeneral ==
    /\ Routed
    /\ ctx.coordination.present
    /\ ctx.coordination.request_type
          \notin {"find_best_candidate", "specific_user"}
    /\ ~ctx.coordination.use_candidate_matcher
    /\ ctx.coordination.user_id # FIND_BEST_CANDIDATE_ID

\* the ids of the candidate profiles the store held when the Router ran
CandidatesBefore == StoredIds(xout.before) \ {FIND_BEST_CANDIDATE_ID}

SelectionMethods ==
    {"candidate_matcher", "legacy_matching", "specific_user_request",
     "default_user"}

\* what load_profile(u) must have returned and left in the store, given
\* the file of u before the call
LoadedAsStored(u, profile) ==
    LET was == xout.before[u]
    IN  /\ was.state = "ok" => profile = was.rec /\ store[u] = was
        /\ was.state = "corrupt" =>
              profile = DefaultProfile(u) /\ store[u] = was
        /\ was.state = "absent" =>
              /\ store[u] = Stored(profile)
              /\ profile = [DefaultProfile(u) EXCEPT
                              !.created_at = clock - 1,
                              !.updated_at = clock - 1]

\* C1: whenever the Router returns a context carrying coordination data
\* with status success, output.user_profile is set and
\* output.selection_method is one of the four branch tags.
C1_SuccessCarriesProfile ==
    (Routed /\ ctx.coordination.present /\ ctx.status = "success") =>
        /\ "user_profile" \in ctx.output.keys
        /\ "selection_method" \in ctx.output.keys
        /\ ctx.output.selection_method \in SelectionMethods

\* C2: for a find-best-candidate request over a non-empty store on which
\* the Ranker succeeds, the Router selects the Ranker's top candidate,
\* attaches that user's stored profile and tags it "candidate_matcher".
C2_RankerChoiceSelected ==
    (/\ RoutedKind("find_best_candidate")
     /\ CandidatesBefore # {}
     /\ "candidate_matching_result" \in ctx.output.keys
     /\ ctx.output.candidate_matching_result.status = "success") =>
        LET top == ctx.output.candidate_matching_result.best_candidate.user_id
        IN  /\ "user_profile" \in ctx.output.keys
            /\ ctx.output.selected_user_id = top
            /\ ctx.output.user_profile.user_id = top
            /\ ctx.output.selection_method = "candidate_matcher"

\* C3: for a find-best-candidate request on a store holding no profile,
\* the Router returns status error without a user_profile, no artifact is
\* generated and the reply stage does not run.
C3_EmptyStoreAborts ==
    (/\ "profile_retriever" \in Ran
     /\ ctx.coordination.present
     /\ ctx.coordination.request_type = "find_best_candidate"
     /\ StoredIds(xout.before) = {}) =>
        /\ ctx.status = "error"
        /\ "user_profile" \notin ctx.output.keys
        /\ files = {}
        /\ "reply_email_generator" \notin Ran

C5_SpecificUserLoaded ==
    (/\ RoutedKind("specific_user")
     /\ ~ctx.coordination.use_candidate_matcher
     /\ ctx.coordination.user_id \in UserIds \ {FIND_BEST_CANDIDATE_ID}) =>
        LET u == ctx.coordination.user_id
        IN  /\ ctx.status = "success"
            /\ "user_profile" \in ctx.output.keys
            /\ ctx.output.selected_user_id = u
            /\ ctx.output.user_profile.user_id = u
            /\ ctx.output.selection_method = "specific_user_request"
            /\ LoadedAsStored(u, ctx.output.user_profile)

\* a specific-user request for a user without a file, now persisted
C5_Witness ==
    /\ RoutedKind("specific_user")
    /\ ctx.coordination.user_id \in UserIds
    /\ xout.before[ctx.coordination.user_id].state = "absent"
    /\ store[ctx.coordination.user_id].state = "ok"
    /\ ctx.output.selection_method = "specific_user_request"

\* C6, as amended: for a general or unrecognized kind the Router loads the
\* profile of the user id the coordination data carries, the default user
\* id when it carries none, and tags it "default_user".
C6_GeneralLoadsCarriedUser ==
    RoutedGeneral =>
        LET u == IF ctx.coordination.user_id = Missing THEN DEFAULT_USER_ID
                 ELSE ctx.coordination.user_id
        IN  /\ ctx.status = "success"
            /\ "user_profile" \in ctx.output.keys
            /\ ctx.output.selected_user_id = u
            /\ ctx.output.user_profile.user_id = u
            /\ ctx.output.selection_method = "default_user"
            /\ LoadedAsStored(u, ctx.output.user_profile)

\* a general request carrying another user id than the default one
C6_Witness ==
    /\ RoutedGeneral
    /\ ctx.coordination.user_id \notin {Missing, DEFAULT_USER_ID}
    /\ ctx.output.selection_method = "default_user"
    /\ ctx.output.selected_user_id = ctx.coordination.user_id

\* C6, as stated: for a general or unrecognized kind, selected_user_id is
\* the default user id whatever user id the coordination data carries.
C6_Original ==
    RoutedGeneral =>
        /\ ctx.output.selected_user_id = DEFAULT_USER_ID
        /\ ctx.output.user_profile.user_id = DEFAULT_USER_ID
        /\ ctx.output.selection_method = "default_user"

----------------------------------------------------------------------------
(* Properties of the Extract stage                                          *)

\* ctx is the context the Extract stage has just returned
Extracted == pc = "profile_retriever"

\* the Extract stage returned the job_info of a reply that parsed
ExtractedReply ==
    /\ Extracted
    /\ "job_info" \in ctx.output.keys
    /\ ~ctx.output.job_info.error

\* email_lower of the email of the run
EmailLower == LowerText(ctx.input.email_text)

\* the direct phrasings: "resume of X", "send X's resume", "hire X"
DirectPhrasings ==
    << <<Lit("resume"), Lit("of"), Cap>>,
       <<Lit("send"), CapPoss, Lit("resume")>>,
       <<Lit("hire"), Cap>> >>

\* the tokens X an email names by a direct phrasing, in lower case
DirectNames(email_lower) ==
    {Search(DirectPhrasings[n], email_lower).cap :
        n \in {m \in 1..Len(DirectPhrasings) :
                  Search(DirectPhrasings[m], email_lower).ok}}

\* C7: every email that matches a find-best-candidate pattern is
\* classified find_best_candidate, also when it matches a user pattern.
C7_FindBestFirst ==
    (ExtractedReply /\ MatchesAny(find_candidate_patterns, EmailLower)) =>
        /\ ctx.output.job_info.request_type = "find_best_candidate"
        /\ ctx.output.job_info.user_id = FIND_BEST_CANDIDATE_ID
        /\ ctx.coordination.request_type = "find_best_candidate"

\* the scenario email, which matches patterns of both lists
C7_Witness ==
    /\ ExtractedReply
    /\ ctx.input.email_text = MailRecommend
    /\ MatchesAny(find_candidate_patterns, EmailLower)
    /\ MatchesAny(user_patterns, EmailLower)
    /\ ctx.output.job_info.request_type = "find_best_candidate"

\* C8: an email that names a user by a direct phrasing and matches no
\* find-best-candidate pattern yields request type specific_user with the
\* captured token, in lower case, as user id.
C8_DirectPhrasingNamesUser ==
    (/\ ExtractedReply
     /\ ~MatchesAny(find_candidate_patterns, EmailLower)
     /\ DirectNames(EmailLower) # {}) =>
        /\ ctx.output.job_info.request_type = "specific_user"
        /\ ctx.output.job_info.user_id \in DirectNames(EmailLower)

C10_DefaultOnFailure ==
    (Extracted /\ xout.llm_calls = <<"extract">>) =>
        /\ ctx.status = "success"
        /\ "job_info" \in ctx.output.keys
        /\ ctx.output.job_info = DefaultJobInfo
        /\ ctx.output.job_info.job_title = "General Position"
        /\ ctx.output.job_info.skills =
              <<"Communication", "Problem-solving", "Teamwork">>
        /\ ctx.output.job_info.request_type = "general_job_posting"
        /\ ctx.coordination =
              Coordination("general_job_posting", DEFAULT_USER_ID, FALSE)

\* a failed extraction for an email the patterns take for a named user
C10_Witness ==
    /\ Extracted
    /\ xout.llm_calls = <<"extract">>
    /\ MatchesAny(user_patterns, EmailLower)
    /\ ctx.output.job_info.job_title = "General Position"

----------------------------------------------------------------------------
(* Claims about the profile store                                          *)

\* the last operation was op, called for user u
Called(op, u) == last.op = op /\ last.user_id = u

\* the operations that end with save_profile
SavingOps ==
    {"save_profile", "save_loaded", "update_profile_paths",
     "update_profile_field", "add_experience", "add_education"}

\* C11: load_profile never fails, whatever the state of the file: the
\* profile it returns carries the requested user id, the file exists
\* afterwards, and where there was none the default profile was saved: the
\* name is the title-cased user id, and skills, experience and education
\* are empty.
C11_LoadAlwaysReturns ==
    \A u \in StoreUsers :
       Called("load_profile", u) =>
          /\ last.ret.user_id = u
          /\ u \in StoredIds(store)
          /\ last.before[u].state = "absent" =>
                /\ store[u] = Stored(last.ret)
                /\ last.ret.name = TitleName(u)
                /\ last.ret.skills = <<>>
                /\ last.ret.experience = <<>>
                /\ last.ret.education = <<>>

\* load_profile was called for a user without a file
C11_Witness ==
    \E u \in StoreUsers :
       /\ Called("load_profile", u)
       /\ last.before[u].state = "absent"
       /\ store[u].state = "ok"

\* C12: after save_profile, alone or at the end of an edit, the store
\* holds a record for the user whose updated_at is the time of the save
\* and whose created_at is the one the user's record had before, where it
\* had one.
C12_SavePreservesCreatedAt ==
    \A u \in StoreUsers :
       (last.op \in SavingOps /\ last.user_id = u) =>
          /\ store[u].state = "ok"
          /\ store[u].rec.updated_at = clock - 1
          /\ (/\ last.before[u].state = "ok"
              /\ last.before[u].rec.created_at # NoTime)
                => store[u].rec.created_at = last.before[u].rec.created_at

\* every readable record of dir carries the user id of its file name
KeysMatch(dir) ==
    \A u \in UserIds : dir[u].state = "ok" => dir[u].rec.user_id = u

\* C13: no operation of the store and no step of a run breaks the match
\* between the user_id field of the records and the keys they are stored
\* under: from a store whose records match their keys, every step leads
\* to a store whose records match their keys.
C13_KeyMatchesUserId == [][KeysMatch(store) => KeysMatch(store')]_vars

\* a record that matched its key was edited to carry another user id, or
\* overwritten with the dict of another user
C13_Witness ==
    /\ KeysMatch(last.before)
    /\ last.before["alice"].state = "ok"
    /\ \/ Called("update_profile_field", "alice") /\ last.field = "user_id"
       \/ Called("save_profile", "alice") /\ last.data.user_id = "bob"
    /\ store["alice"].rec.user_id = "alice"

\* the profile load_profile returns for u in the store dir
Base(dir, u) ==
    IF dir[u].state = "ok" THEN dir[u].rec ELSE DefaultProfile(u)

\* the record of u after update_profile_paths is applied n times to the
\* state the last call found
PathsApplied(n, u) ==
    IF n = 1
    THEN update_profile_paths([store |-> last.before, clock |-> last.at], u,
                              last.resume_path, last.cover_letter_path).ret
    ELSE update_profile_paths(
             update_profile_paths([store |-> last.before, clock |-> last.at],
                                  u, last.resume_path,
                                  last.cover_letter_path),
             u, last.resume_path, last.cover_letter_path).ret

\* what update_profile_paths leaves alone, but for created_at: the path
\* that was not given, the descriptive fields, the records of the other
\* users; and a second application changes nothing but updated_at
PathsFrame(u) ==
    /\ store[u].state = "ok"
    /\ last.resume_path # NoPath =>
          store[u].rec.resume_path = last.resume_path
    /\ last.cover_letter_path # NoPath =>
          store[u].rec.cover_letter_path = last.cover_letter_path
    /\ last.resume_path = NoPath =>
          store[u].rec.resume_path = Base(last.before, u).resume_path
    /\ last.cover_letter_path = NoPath =>
          store[u].rec.cover_letter_path =
             Base(last.before, u).cover_letter_path
    /\ \A field \in {"name", "email", "phone", "skills", "experience",
                     "education"} :
          store[u].rec[field] = Base(last.before, u)[field]
    /\ \A v \in UserIds \ {u} : store[v] = last.before[v]
    /\ [PathsApplied(2, u) EXCEPT !.updated_at = NoTime]
          = [PathsApplied(1, u) EXCEPT !.updated_at = NoTime]
    /\ PathsApplied(1, u) = store[u].rec

\* C14: update_profile_paths changes the path fields it is given and no
\* other: the omitted path, name, email, phone, skills, experience and
\* education of the profile and the records of the other users stay as
\* they were, created_at stays as it was where the record had one and is
\* otherwise set to the time of the update, and a second application of
\* the same update changes nothing but updated_at.
C14_UpdatePathsFrame ==
    \A u \in StoreUsers :
       Called("update_profile_paths", u) =>
          /\ PathsFrame(u)
          /\ Base(last.before, u).created_at # NoTime =>
                store[u].rec.created_at = Base(last.before, u).created_at
          /\ Base(last.before, u).created_at = NoTime =>
                store[u].rec.created_at \in last.at..(clock - 1)

\* one path was given for a record that has the other one recorded
C14_Witness ==
    /\ Called("update_profile_paths", "alice")
    /\ last.before["alice"].state = "ok"
    /\ last.before["alice"].rec.resume_path # NoPath
    /\ last.resume_path = NoPath
    /\ last.cover_letter_path # NoPath
    /\ store["alice"].rec.resume_path = last.before["alice"].rec.resume_path
    /\ store["alice"].rec.cover_letter_path = last.cover_letter_path

\* C14 as the claim has it: created_at is among the fields that
\* update_profile_paths leaves unchanged in every record it finds
C14_Original ==
    \A u \in StoreUsers :
       (Called("update_profile_paths", u) /\ last.before[u].state = "ok") =>
          /\ PathsFrame(u)
          /\ store[u].rec.created_at = last.before[u].rec.created_at

\* f is a file that save_profile wrote for u and nothing changed since
SavedFor(f, u) ==
    /\ f.state = "ok"
    /\ f.rec.user_id = u
    /\ f.rec.created_at # NoTime
    /\ f.rec.updated_at # NoTime

\* C15: saving the profile that load_profile returns for a user whose
\* record was stored by save_profile leaves a record equal to the one
\* before in every field but updated_at, and touches no other record.
C15_RoundTrip ==
    \A u \in StoreUsers :
       (Called("save_loaded", u) /\ SavedFor(last.before[u], u)) =>
          /\ store[u].state = "ok"
          /\ [store[u].rec EXCEPT !.updated_at = NoTime]
                = [last.before[u].rec EXCEPT !.updated_at = NoTime]
          /\ \A v \in UserIds \ {u} : store[v] = last.before[v]

\* a stored record went through load_profile and save_profile, and the
\* save put its time on it
C15_Witness ==
    /\ Called("save_loaded", "alice")
    /\ SavedFor(last.before["alice"], "alice")
    /\ last.before["alice"].rec.skills # <<>>
    /\ store["alice"].rec.updated_at = last.at
    /\ store["alice"].rec.updated_at # last.before["alice"].rec.updated_at

\* C16: no step removes a profile file: the set of stored user ids after a
\* step of a store operation, of the router or of a stage of the pipeline
\* contains the set before it.
C16_NeverDeleted == [][StoredIds(store) \subseteq StoredIds(store')]_vars

\* an operation added a file to a store that had some, and those are
\* still there
C16_Witness ==
    /\ last.op \in SavingOps \cup {"load_profile"}
    /\ StoredIds(last.before) # {}
    /\ StoredIds(last.before) \subseteq StoredIds(store)
    /\ StoredIds(store) # StoredIds(last.before)

----------------------------------------------------------------------------
(* Claims about concurrent runs                                            *)

\* the operation of a run executed alone, from start to end
ApplyTask(st, kind) ==
    IF kind = "resume_rewrite"
    THEN [store |-> IF st.store[RaceUser].state = "ok"
                    THEN [st.store EXCEPT
                            ![RaceUser].rec.resume_path = TaskResume(kind)]
                    ELSE st.store,
          clock |-> st.clock]
    ELSE [store |-> update_profile_paths(st, RaceUser, TaskResume(kind),
                                         TaskCover(kind)).store,
          clock |-> update_profile_paths(st, RaceUser, TaskResume(kind),
                                         TaskCover(kind)).clock]

\* the store after the operations of runs i and j, one after the other
Serial(i, j) ==
    ApplyTask(ApplyTask([store |-> last.before, clock |-> last.at],
                        tasks[i].kind),
              tasks[j].kind).store

\* a file without the times of its writes
Untimed(f) ==
    [f EXCEPT !.rec.created_at = NoTime, !.rec.updated_at = NoTime]

\* both runs have finished their operation
AllDone == tasks # <<>> /\ \A i \in TaskIds : tasks[i].at = "done"

\* C17: when two runs write the profile of the same user at the same time,
\* no load reads a file that is partly written, and the record left at
\* the end is the one that the two operations leave when executed one
\* after the other, in one of the two orders.
C17_WritesSerialized ==
    /\ tasks # <<>> => \A i \in TaskIds : ~tasks[i].partial
    /\ AllDone =>
          \/ Untimed(store[RaceUser]) = Untimed(Serial(1, 2)[RaceUser])
          \/ Untimed(store[RaceUser]) = Untimed(Serial(2, 1)[RaceUser])

----------------------------------------------------------------------------
(* Claims about the pipeline                                               *)

\* self.modules, in the order of the list
StageOrder ==
    <<"email_interpreter", "profile_retriever", "resume_builder",
      "cover_letter_writer", "reply_email_generator">>

\* the run in progress, or the last one, is one of process_email
InPipeline == xout.host = "orchestrator"

\* the stages that have returned are the first ones of the list, each once,
\* and the loop stands at the next one
StagesInOrder ==
    /\ Len(log) <= Len(StageOrder)
    /\ log = SubSeq(StageOrder, 1, Len(log))
    /\ pc \in {"idle", "done", "raised"}
          \/ (Len(log) < Len(StageOrder) /\ pc = StageOrder[Len(log) + 1])

\* what a stage finds in the context when it starts
InputsSet ==
    /\ pc = "profile_retriever" => "job_info" \in ctx.output.keys
    /\ pc \in {"resume_builder", "cover_letter_writer"} =>
          "user_profile" \in ctx.output.keys
    /\ pc = "reply_email_generator" =>
          {"resume_path", "cover_letter_path"} \subseteq ctx.output.keys

\* C18: in a run of process_email the stages run in the order of the list,
\* each at most once and each after the one before it has returned, so
\* that job_info is set when routing starts, user_profile when a rendering
\* stage starts, and both artifact paths when the reply is composed.
C18_StagesInOrder == InPipeline => (StagesInOrder /\ InputsSet)

\* C19: once a stage of a run has failed, no later stage runs: from a
\* state of a run whose context has status error no step adds a stage to
\* the stages that have run, and a stage that raised leaves the files of
\* the stages before it in place.
C19_FailureAborts ==
    [][(InPipeline /\ ctx.status = "error") =>
          /\ log' = log \/ log' = <<>>
          /\ files \subseteq files']_vars

----------------------------------------------------------------------------
\* Rendering claims, over the two render stages called on their own.

\* The path the profile of user u recorded for the stage op before the call.
RecordedPath(op, u) ==
    IF last.before[u].state # "ok" THEN NoPath
    ELSE IF op = "resume_builder" THEN last.before[u].rec.resume_path
    ELSE last.before[u].rec.cover_letter_path

\* The path the stage op returned.
ReturnedPath(op) ==
    IF op = "resume_builder" THEN last.resume_path ELSE last.cover_letter_path

\* The stage op, called for u, found a recorded artifact that is on disk.
HasArtifact(op, u) ==
    /\ last.op = op
    /\ last.user_id = u
    /\ ~last.raised
    /\ RecordedPath(op, u) # NoPath
    /\ RecordedPath(op, u) \in last.disk

Reuses(op, u) ==
    HasArtifact(op, u) =>
        /\ ~last.generated
        /\ ReturnedPath(op) = RecordedPath(op, u)

\* C20: a render stage called for a user whose profile records its artifact
\* at a path that is on disk returns that path and generates nothing; this
\* holds for the resume stage and for the cover letter stage.
C20_ArtifactReused ==
    \A u \in StoreUsers :
        Reuses("resume_builder", u) /\ Reuses("cover_letter_writer", u)

----------------------------------------------------------------------------
\* Scoring claims, over the scorer's functions called on their own.

ScoreCalled(op) == last.op = op

\* the two skill lists of the call after normalization
JobSkillsClean == safe_string_processing(AsStrings(last.job))
CandidateSkillsClean == safe_string_processing(AsStrings(last.candidate))

EitherListEmpty == JobSkillsClean = <<>> \/ CandidateSkillsClean = <<>>

\* the job skills that are a substring of, or contain, a candidate skill
MatchedJobSkills ==
    {i \in 1..Len(JobSkillsClean) :
        \E j \in 1..Len(CandidateSkillsClean) :
            \/ InStr(JobSkillsClean[i], CandidateSkillsClean[j])
            \/ InStr(CandidateSkillsClean[j], JobSkillsClean[i])}

ScoreOps ==
    {"calculate_skills_match", "calculate_experience_match",
     "calculate_education_match"}

\* C24: each of the three sub-scores returns a value in [0,1] for every
\* argument, the malformed ones included (a call that raised has no value).
C24_SubScoresTotal ==
    last.op \in ScoreOps => last.ret \in 0..100

\* h is x / n rounded to hundredths
IsRounded(h, x, n) ==
    /\ 2 * (100 * x - h * n) <= n
    /\ 2 * (h * n - 100 * x) <= n

\* C26: without the embedding backend, skills_match is the number of
\* normalized job skills that are a substring of, or contain, a normalized
\* candidate skill, divided by the number of normalized job skills and
\* rounded to 2 decimals.
C26_FallbackFormula ==
    (ScoreCalled("calculate_skills_match") /\ ~last.emb.ok
       /\ JobSkillsClean # <<>>) =>
        IsRounded(last.ret, Cardinality(MatchedJobSkills),
                  Len(JobSkillsClean))

\* job ["Python", "SQL"] against ["python", "sql", "docker"] gives 1.0
C26_Witness ==
    /\ ScoreCalled("calculate_skills_match")
    /\ ~last.emb.ok
    /\ last.job = PyList(<<PyStr("Python"), PyStr("SQL")>>)
    /\ last.candidate =
          PyList(<<PyStr("python"), PyStr("sql"), PyStr("docker")>>)
    /\ last.ret = 100

\* the level of the call as the specified function reads it: its name
\* in lower case, Null when no level is given
CalledLevel ==
    IF Truthy(last.job) THEN LowerStr(last.job.s) ELSE Null

\* the entries of the experience of the call
CalledEntries ==
    IF last.candidate.t = "str" THEN <<last.candidate.s>>
    ELSE [i \in 1..Len(last.candidate.items) |->
            Str(last.candidate.items[i])]

\* the sum of the N of all "<N> year" patterns of the entries
NamedYears(entries) ==
    SumSeq([i \in 1..Len(entries) |-> SumSeq(YearMatches(entries[i]))])

\* the (min, max) of the recognized levels
SpecifiedRange ==
    [entry |-> <<0, 2>>, junior |-> <<0, 2>>, mid |-> <<2, 5>>,
     intermediate |-> <<2, 5>>, senior |-> <<5, 10>>,
     expert |-> <<10, 20>>, lead |-> <<5, 15>>]

\* the score specified for a level and a number of years, in hundredths
SpecifiedScore(level, years) ==
    IF level \in DOMAIN SpecifiedRange
    THEN IF years > SpecifiedRange[level][2] THEN 80
         ELSE IF years >= SpecifiedRange[level][1] THEN 100
         ELSE IF 60 * years >= 20 * SpecifiedRange[level][1]
         THEN (60 * years) \div SpecifiedRange[level][1]
         ELSE 20
    ELSE IF years >= 5 THEN 90
    ELSE IF years >= 2 THEN 70
    ELSE IF years >= 1 THEN 50
    ELSE 30

\* a call with a level that is a string or absent and an experience that
\* is a string, a list or absent
ExperienceCalled ==
    /\ ScoreCalled("calculate_experience_match")
    /\ last.job.t \in {"str", "none"}
    /\ last.candidate.t \in {"str", "list", "none"}

\* C27: experience_match is the specified function of the level and of
\* candidate_years, where candidate_years is: for a list, the sum of the N
\* of its "<N> year" patterns when that sum is positive and the number of
\* entries otherwise; for a string that is not empty, 2 when it contains
\* year, yr, experience or exp and 1 otherwise. An empty experience scores
\* 0.1 for the level entry and 0.0 for every other level, senior included,
\* and for no level.
C27_ExperienceFormula ==
    ExperienceCalled =>
        IF ~Truthy(last.candidate)
        THEN last.ret = IF CalledLevel = "entry" THEN 10 ELSE 0
        ELSE IF last.candidate.t = "str"
        THEN last.ret =
               SpecifiedScore(CalledLevel,
                              IF HasYearsIndicator(last.candidate.s)
                              THEN 2 ELSE 1)
        ELSE last.ret =
               SpecifiedScore(CalledLevel,
                              IF NamedYears(CalledEntries) > 0
                              THEN NamedYears(CalledEntries)
                              ELSE Len(CalledEntries))

\* three years against the level senior: below the range, 0.36
C27_Witness ==
    /\ ExperienceCalled
    /\ last.job = PyStr("senior")
    /\ last.candidate = PyList(<<PyStr("3 years as backend engineer")>>)
    /\ last.ret = 36

\* C27 as stated: candidate_years is the sum of the N of all "<N> year"
\* patterns if any entry has one, else the number of entries (1 for a
\* string without a pattern); an empty experience scores 0.1 for entry
\* and 0.0 for senior.
C27_Original ==
    ExperienceCalled =>
        IF ~Truthy(last.candidate)
        THEN /\ CalledLevel = "entry" => last.ret = 10
             /\ CalledLevel = "senior" => last.ret = 0
        ELSE last.ret =
               SpecifiedScore(CalledLevel,
                              IF \E i \in 1..Len(CalledEntries) :
                                    YearMatches(CalledEntries[i]) # <<>>
                              THEN NamedYears(CalledEntries)
                              ELSE Len(CalledEntries))

----------------------------------------------------------------------------
\* Ranking claims, over the ranker, the legacy matcher and the listing
\* called on their own.

\* the ranker was called and ranked
Ranked ==
    /\ last.op = "find_best_candidate"
    /\ last.ret.status = "success"

\* the profiles the ranker scored, in the order it scored them
RankedInput ==
    IF last.profiles # <<>> THEN last.profiles
    ELSE LoadDirectory(Here, ListDir(store, last.order))

\* the place of user id u in the profiles the ranker scored
InputPlace(u) ==
    CHOOSE i \in 1..Len(RankedInput) : RankedInput[i].user_id = u

\* C21: the candidates are ordered by overall score descending, those of
\* equal score in the order of the input profiles; every scored profile is
\* a candidate; the best candidate is the first, and no candidate scores
\* more.
C21_RankOrder ==
    Ranked =>
        \E all \in {last.ret.all_candidates} :
            /\ Len(all) = Len(RankedInput)
            /\ last.ret.total_candidates_evaluated = Len(RankedInput)
            /\ {all[i].user_id : i \in 1..Len(all)}
                 = {RankedInput[i].user_id : i \in 1..Len(RankedInput)}
            /\ \A i, j \in 1..Len(all) :
                  i < j =>
                    /\ all[i].overall_score >= all[j].overall_score
                    /\ all[i].overall_score = all[j].overall_score =>
                          InputPlace(all[i].user_id)
                             < InputPlace(all[j].user_id)
            /\ last.ret.best_candidate = all[1]
            /\ \A i \in 1..Len(all) :
                  last.ret.best_candidate.overall_score
                     >= all[i].overall_score

\* two profiles of equal score were passed with a better one after them:
\* the better one comes first, the two keep their order
C21_Witness ==
    /\ Ranked
    /\ Len(last.profiles) = 3
    /\ last.profiles[1].user_id = "this"
    /\ last.profiles[2].user_id = DEFAULT_USER_ID
    /\ last.profiles[3].user_id = "alice"
    /\ last.ret.all_candidates[1].user_id = "alice"
    /\ last.ret.all_candidates[2].user_id = "this"
    /\ last.ret.all_candidates[3].user_id = DEFAULT_USER_ID
    /\ last.ret.all_candidates[2].overall_score
         = last.ret.all_candidates[3].overall_score

\* C22: the ranker called with an empty profile sequence returns status
\* error and no candidate, and so does the ranker called without a job.
C22_EmptyInputFails ==
    (last.op = "find_best_candidate"
       /\ (last.profiles = <<>> \/ last.job = NoJob)) =>
        /\ last.ret.status = "error"
        /\ last.ret.best_candidate = NoCandidate
        /\ last.ret.all_candidates = <<>>

\* the profiles the legacy matcher may choose from
LegacyCandidates == StoredIds(store) \ {FIND_BEST_CANDIDATE_ID}

\* the number of skills of the stored profile of u among the job skills,
\* in lower case
Overlap(u) ==
    Cardinality(SkillSet(load_profile(Here, u).ret.skills)
                  \cap SkillSet(last.job_skills))

\* all profiles score the same: none of several is better, or none
\* shares a skill with the job
TotalTie ==
    /\ \A u, v \in LegacyCandidates : Overlap(u) = Overlap(v)
    /\ Cardinality(LegacyCandidates) > 1
         \/ \A u \in LegacyCandidates : Overlap(u) = 0

\* C25: the legacy matcher returns the default user id when no profile is
\* stored and when the profiles tie; otherwise it returns a stored profile
\* other than the sentinel's whose overlap with the job skills is maximal.
C25_LegacyArgmax ==
    last.op = "legacy_find_best_candidate" =>
        IF LegacyCandidates = {} \/ TotalTie
        THEN last.ret = DEFAULT_USER_ID
        ELSE /\ last.ret \in LegacyCandidates
             /\ \A u \in LegacyCandidates : Overlap(u) <= Overlap(last.ret)

\* the user ids the call enumerated, ranked or selected
Enumerated ==
    CASE last.op = "get_all_profiles" ->
           {last.ret[i].user_id : i \in 1..Len(last.ret)}
      [] last.op = "legacy_find_best_candidate" -> {last.ret}
      [] last.op = "find_best_candidate" /\ last.profiles = <<>> ->
           {last.ret.all_candidates[i].user_id :
               i \in 1..Len(last.ret.all_candidates)}
             \cup {last.ret.best_candidate.user_id}
      [] OTHER -> {}

\* C30: the sentinel id is not among the profiles the listing returns,
\* nor among the candidates of the ranker when it loads the profiles
\* itself, nor is it the choice of the legacy matcher.
C30_SentinelSkipped ==
    FIND_BEST_CANDIDATE_ID \notin Enumerated

----------------------------------------------------------------------------
\* Claims on the context handed through the pipeline.

\* the user the Router selected in the run
SelectedUser == ctx.output.selected_user_id

\* an artifact path of the run lies in the directory of the selected user,
\* and no other user's stored profile records it
ForSelected(key, path) ==
    key \in ctx.output.keys =>
        /\ path[2] = SelectedUser
        /\ \A u \in UserIds \ {SelectedUser} :
              store[u].state = "ok" =>
                 /\ store[u].rec.resume_path # path
                 /\ store[u].rec.cover_letter_path # path

\* C28: in a run of the pipeline the resume and the cover letter are
\* written to the directory of the user the Router selected and recorded
\* in that user's profile, whatever user id the caller supplied.
C28_RenderedForSelected ==
    (InPipeline /\ "selected_user_id" \in ctx.output.keys) =>
        /\ ForSelected("resume_path", ctx.output.resume_path)
        /\ ForSelected("cover_letter_path", ctx.output.cover_letter_path)

\* the output fields the stages hand on
HandedOn == {"job_info", "user_profile", "resume_path", "cover_letter_path"}

\* the context after a step carries what the context before it carried
Carries(before, after) ==
    /\ after.input = before.input
    /\ \A k \in before.output.keys \cap HandedOn :
          /\ k \in after.output.keys
          /\ after.output[k] = before.output[k]

\* C29: a stage of a run that returns, with status error or not, leaves
\* input and every output field written before it in the context.
C29_StagesPreserve ==
    [][(InPipeline /\ log' = Append(log, pc)) => Carries(ctx, ctx')]_vars

============================================================================
